---- MODULE Spec2Model ----
(***************************************************************************)
(* The caching and rate-limiting substrate of the blog backend:            *)
(* RedisService (src/src/redis/redis.service.ts) over a key-value store,   *)
(* and the resource services that cache through it.                        *)
(*                                                                         *)
(* Every `await` of a store command is one step of a request: the step at  *)
(* which the store executes the command (or the command is rejected) and   *)
(* the caller runs on to its next await.  Requests interleave at awaits.   *)
(***************************************************************************)
EXTENDS Integers, Sequences, FiniteSets, TLC

\* ------------------------------------------------------------------ bounds
NumProcs == 2      \* requests in flight at once
MaxLimit == 2      \* largest quota limit drawn
MaxWindow == 2     \* largest windowSeconds drawn
MaxTime == 2       \* the clock runs 0..MaxTime (seconds)
MaxCount == 4      \* counters are not incremented beyond this
MaxCalls == 4      \* quota checks per window

Procs == 1..NumProcs

\* ------------------------------------------------------------------ values
\* What the store holds and what operations hand back.  A stored string is
\* "int" (the decimal text of n, as INCR writes it), "json" (the JSON text of
\* object n), "lit" (the JSON text false, true or null), "quoted" (the JSON
\* text of string n) or "raw" (text that is not JSON; RawText(0) is the empty
\* string).  A value handed back is null, a number, a boolean, a string
\* (Str(0) is the empty string) or an object.
Null == [kind |-> "null", n |-> 0]
Void == [kind |-> "void", n |-> 0]
NaN == [kind |-> "nan", n |-> 0]
IntVal(i) == [kind |-> "int", n |-> i]
JsonText(i) == [kind |-> "json", n |-> i]
RawText(i) == [kind |-> "raw", n |-> i]
Bool(b) == [kind |-> "bool", n |-> IF b THEN 1 ELSE 0]
Num(i) == [kind |-> "num", n |-> i]
Str(i) == [kind |-> "str", n |-> i]
Obj(i) == [kind |-> "obj", n |-> i]
LitText(i) == [kind |-> "lit", n |-> i]
QuotedText(i) == [kind |-> "quoted", n |-> i]

NoTTL == -1

\* ------------------------------------------------------------------ keys
\* A key is its ':'-separated segments.
RLKey == <<"rate_limit", "findAll", "ip">>
GlobalRLKey == <<"rate_limit", "global", "GET", "/settings", "ip">>

\* The caller identities of the modelled requests: the client's address "ip",
\* two forwarded-for hops, a user and 'unknown'.
Identities == {"ip", "x1", "x2", "user:1", "unknown"}

\* `rate_limit:${handler.name}:${identifier}`
GateKey(name, identifier) == <<"rate_limit", name, identifier>>

\* `rate_limit:global:${request.method}:${request.path}:${identifier}`
GlobalKey(method, path, identifier) == <<"rate_limit", "global", method, path, identifier>>

\* The slugs and ids of the modelled posts, categories and tags.
Slugs == {"a", "b"}
PostIds == {"1", "2"}
PostKey(slug) == <<"post", slug>>
PostIdKey(id) == <<"post", "id", id>>
ListKey == <<"posts", "list", "page", "1">>
ListKey2 == <<"posts", "list", "page", "2">>
PageKey == <<"posts", "page", "1">>
RelatedKey == <<"posts", "related", "exclude", "1">>
SearchKey == <<"search", "q">>
CategoriesAll == <<"categories", "all">>
TagsAll == <<"tags", "all">>
CategoryIdKey == <<"category", "id", "1">>
TagIdKey == <<"tag", "id", "7">>
CacheKeys ==
  {PostKey(x) : x \in Slugs} \cup {PostIdKey(i) : i \in PostIds} \cup
  {ListKey, ListKey2, PageKey, RelatedKey, SearchKey, CategoriesAll, TagsAll,
   CategoryIdKey, TagIdKey}
\* `refresh_token:${user.id}:${refreshToken}` of the token login hands out, and
\* of the one refreshToken hands out in its place
TokenKey == <<"refresh_token", "1", "t1">>
NewTokenKey == <<"refresh_token", "1", "t2">>

Keys ==
  {RLKey, GlobalRLKey, TokenKey, NewTokenKey} \cup CacheKeys \cup
  {GateKey("findAll", i) : i \in Identities} \cup
  {GlobalKey("GET", "/settings", i) : i \in Identities}

\* Glob patterns, as segments; "*" as the last segment matches any rest.
PostsListPattern == <<"posts", "list", "*">>
PostsPagePattern == <<"posts", "page", "*">>

\* The SCAN MATCH glob: 'posts:list:*' matches the keys that begin 'posts:list:'.
GlobMatch(pattern, key) ==
  LET n == Len(pattern) IN
  IF n > 0 /\ pattern[n] = "*"
    THEN /\ Len(key) >= n
         /\ \A i \in 1..(n - 1) : key[i] = pattern[i]
    ELSE key = pattern

VARIABLES
  client,       \* RedisService.client !== null
  isConnected,  \* RedisService.isConnected
  now,          \* the clock, in seconds
  kv,           \* the store: key -> stored string, or Null when the key is absent
  expiry,       \* the store: key -> the time the key expires, or NoTTL
  quota,        \* the quota declared for the route of RLKey: [limit, windowSeconds]
  guard,        \* which RateLimitGuard.canActivate the application runs
  pc,           \* per request: where it is
  op,           \* per request: the public operation it is running
  loc,          \* per request: the operation's locals
  ret,          \* per request: what the operation returned
  issued,       \* per request: store commands its operation has issued (history)
  downAtEntry,  \* per request: the cache was disabled or disconnected when its operation was called (history)
  win,          \* the current window of RLKey: calls returned, and calls allowed (history)
  errorLogged,  \* RedisService.errorLogged
  warnings,     \* logger.warn calls since the last 'connect' event (history)
  times,        \* the client's count of consecutive failed connection attempts
  delay,        \* the reconnect delay the retry policy last returned, in ms, or NoDelay
  retries,      \* reconnects scheduled since the last 'connect' event (history)
  last,         \* the most recent connection event (history)
  gaveUp,       \* the retry policy has stopped retrying at least once (history)
  status,       \* the client: "wait" (lazy, not yet asked to connect), "live", "end"
  db,           \* the database: [gen, slug, category]
  handler,      \* per request: the service handler it runs, and where that is
  out           \* per request: what the handler returned

connVars ==
  <<client, isConnected, errorLogged, warnings, times, delay, retries, last, gaveUp, status>>
storeVars == <<kv, expiry>>
routeVars == <<quota, guard>>
procVars == <<pc, op, loc, ret, issued, downAtEntry>>
appVars == <<db, handler, out>>
vars ==
  <<client, isConnected, errorLogged, warnings, times, delay, retries, last, gaveUp, status,
    now, kv, expiry, quota, guard, pc, op, loc, ret, issued, downAtEntry, win,
    db, handler, out>>

\* ------------------------------------------------------------------ the store
\* The commands of the key-value store, each atomic at the store.

\* GET key
cmdGet(k) == kv[k]

\* INCR key: a missing key counts from 0 and is created without a TTL; the TTL
\* of an existing key is left alone.  INCR of a non-integer string is an error.
incrOk(k) == kv[k].kind \in {"null", "int"}
\* (mutant) the counter is read back, not incremented
incrValueNotAdded(k) == IF kv[k].kind = "int" THEN kv[k].n ELSE 1
incrValue(k) == IF kv[k].kind = "int" THEN kv[k].n + 1 ELSE 1

\* EXPIRE key seconds: no effect on a missing key.
expireAt(k, seconds) == IF kv[k].kind = "null" THEN expiry[k] ELSE now + seconds

\* Keys whose TTL has elapsed at time t are gone (store-managed expiry).
Expired(k, t) == expiry[k] # NoTTL /\ expiry[k] <= t

\* ------------------------------------------------------------------ connection
\* (mutant) the connection state is not consulted
isAvailableIgnoringConnection == client

\* isAvailable(): this.isConnected && this.client !== null
isAvailable == isConnected /\ client

\* ------------------------------------------------------------------ results
NoRet == [st |-> "none", val |-> Null, allowed |-> FALSE, remaining |-> 0, resetAt |-> 0]
Returned(v) == [st |-> "ok", val |-> v, allowed |-> FALSE, remaining |-> 0, resetAt |-> 0]
RateResult(a, rem, reset) ==
  [st |-> "ok", val |-> Void, allowed |-> a, remaining |-> rem, resetAt |-> reset]
NoLoc ==
  [key |-> RLKey, ttl |-> 0, value |-> Null, resetAt |-> 0, result |-> 0, seq |-> 0,
   rejected |-> FALSE, pend |-> {}]

Max(a, b) == IF a >= b THEN a ELSE b

\* parseInt(value, 10) of a stored string
parseInt(v) == IF v.kind = "int" THEN Num(v.n) ELSE NaN

\* getNumber: value ? parseInt(value, 10) : 0
getNumber(v) == IF v.kind = "null" THEN Num(0) ELSE parseInt(v)

\* (mutant) the comparison is off by one
AtLimitOffByOne(current, limit) == current.kind = "num" /\ current.n > limit

\* current >= limit (false for NaN)
AtLimit(current, limit) == current.kind = "num" /\ current.n >= limit

\* ------------------------------------------------------------------ faults
\* How an awaited store command ends: "ok" (executed, reply received), "fail"
\* (rejected, not executed), "lost" (executed, but the reply never arrived and
\* the command was rejected).  A reply needs a live connection.
Outcomes == {"ok", "fail", "lost"}
CanEnd(o) == o = "ok" => isConnected
Executed(o) == o \in {"ok", "lost"}

\* ------------------------------------------------------------------ try / catch
\* (mutant) decrement awaits its command outside any try block
CatchesButDecrement ==
  {"get", "set", "del", "exists", "increment", "hset", "hget",
   "hgetall", "hdel", "expire", "ttl", "checkRateLimit", "onModuleInit",
   "onModuleDestroy"}

\* The methods whose store command sits in a try block whose catch returns the
\* method's fallback.
Catches ==
  {"get", "set", "del", "exists", "increment", "decrement", "hset", "hget",
   "hgetall", "hdel", "expire", "ttl", "checkRateLimit", "onModuleInit",
   "onModuleDestroy"}

Threw == [st |-> "threw", val |-> Null, allowed |-> FALSE, remaining |-> 0, resetAt |-> 0]

\* What each method returns when unavailable or when its command is rejected.
Fallback(method) ==
  CASE method \in {"get", "hget"} -> Null
    [] method \in {"set", "del", "hset", "hdel", "expire"} -> Void
    [] method = "exists" -> Bool(FALSE)
    [] method \in {"increment", "decrement"} -> Num(0)
    [] method = "hgetall" -> Obj(0)
    [] method = "ttl" -> Num(-1)

\* The method each public operation enters first, and the command it awaits.
FirstMethod(name) ==
  CASE name \in {"getNumber", "getJSON", "checkRateLimit"} -> "get"
    [] name = "setJSON" -> "set"
    [] OTHER -> name
Command(method) ==
  CASE method = "increment" -> "incr"
    [] method = "decrement" -> "decr"
    [] OTHER -> method

\* ------------------------------------------------------------------ warnings
MaxWarnings == 2

\* this.logger.warn(...): n warnings so far in the episode (counted up to MaxWarnings)
Warned(n) == IF n < MaxWarnings THEN n + 1 ELSE n

\* The methods whose catch block warns: if (!this.errorLogged) this.logger.warn(...)
\* (the catch of ttl, of checkRateLimit and of onModuleDestroy log nothing).
Warns == Catches \ {"ttl", "checkRateLimit", "onModuleDestroy"}

\* The catch block of `method` has run or not (rejected): it warns unless
\* errorLogged, and leaves errorLogged as it is.  Sets the connection variables.
Caught(rejected, method) ==
  /\ warnings' = IF rejected /\ method \in Warns /\ ~errorLogged
                   THEN Warned(warnings) ELSE warnings
  /\ UNCHANGED <<client, isConnected, errorLogged, times, delay, retries, last, gaveUp,
                 status>>

\* ------------------------------------------------------------------ JSON helper
\* JSON.parse of a stored string: "raw" text throws, caught as null.
parseJSON(v) ==
  CASE v.kind = "json" -> Obj(v.n)
    [] v.kind = "int" -> Num(v.n)
    [] v.kind = "lit" -> IF v.n = 2 THEN Null ELSE Bool(v.n = 1)
    [] v.kind = "quoted" -> Str(v.n)
    [] OTHER -> Null

\* JSON.stringify(value)
stringify(v) ==
  CASE v.kind = "obj" -> JsonText(v.n)
    [] v.kind = "num" -> IntVal(v.n)
    [] v.kind = "bool" -> LitText(v.n)
    [] v.kind = "str" -> QuotedText(v.n)
    [] OTHER -> LitText(2)

\* A value is truthy: if (value)
Truthy(v) ==
  CASE v.kind \in {"obj", "json", "int", "lit", "quoted"} -> TRUE
    [] v.kind \in {"num", "bool", "str", "raw"} -> v.n # 0
    [] OTHER -> FALSE

\* (mutant) a falsy parsed value is handed back as null
getJSONOrNull(v) == IF Truthy(v) /\ Truthy(parseJSON(v)) THEN parseJSON(v) ELSE Null

\* getJSON: if (!value) return null; else JSON.parse in try / catch
getJSON(v) == IF ~Truthy(v) THEN Null ELSE parseJSON(v)

\* ------------------------------------------------------------------ checkRateLimit
\* (mutant) the limit is checked again on the incremented count
RateLimitCheckedAfterIncrement(newCount, limit, resetAt) ==
  RateResult(newCount <= limit, Max(0, limit - newCount), resetAt)

\* (mutant) remaining is computed from the count before the increment
RateLimitAllowedBeforeIncrement(newCount, limit, resetAt) ==
  RateResult(TRUE, Max(0, limit - newCount + 1), resetAt)

\* What checkRateLimit returns once increment has returned newCount.
RateLimitAllowed(newCount, limit, resetAt) ==
  RateResult(TRUE, Max(0, limit - newCount), resetAt)

\* checkRateLimit's fail-open result (unavailable, or its own catch).
FailOpen(limit, windowSeconds) == RateResult(TRUE, limit, now + windowSeconds)

\* (mutant) the TTL is refreshed by every increment
SetsTTLAlways(ttl, result) == ttl # 0

\* The guard of increment's EXPIRE: if (ttl && result === 1)
SetsTTL(ttl, result) == ttl # 0 /\ result = 1

\* An exception leaves `method` uncaught and reaches the operation's caller,
\* unless the operation is checkRateLimit, whose catch allows the request.
\* Sets pc, ret of p.
Throw(p) ==
  /\ pc' = [pc EXCEPT ![p] = "done"]
  /\ ret' = [ret EXCEPT ![p] =
               IF op[p] = "checkRateLimit" /\ "checkRateLimit" \in Catches
                 THEN FailOpen(loc[p].value.n, loc[p].ttl) ELSE Threw]

\* `method` is entered from operation `name` of p: unavailable, it returns its
\* fallback v at once through Cont(v); else its command is issued.
\* Sets pc, ret, issued of p (Cont sets pc, ret).
Enter(p, method, Cont(_)) ==
  IF ~isAvailable
    THEN /\ Cont(Fallback(method))
         /\ issued' = issued
    ELSE /\ pc' = [pc EXCEPT ![p] = Command(method)]
         /\ ret' = [ret EXCEPT ![p] = NoRet]
         /\ issued' = [issued EXCEPT ![p] = @ + 1]

\* The operation of p returns v.  Sets pc, ret of p.
Finish(p, v) ==
  /\ pc' = [pc EXCEPT ![p] = "done"]
  /\ ret' = [ret EXCEPT ![p] = v]

\* increment returned r (a Num) to its caller.  Sets pc, ret of p.
AfterIncrement(p, name, r, resetAt) ==
  Finish(p, IF name = "checkRateLimit"
              THEN RateLimitAllowed(r.n, loc[p].value.n, resetAt)
              ELSE Returned(r))

\* checkRateLimit after `current = await this.getNumber(key)`; l is p's locals.
\* Sets pc, ret, loc, issued of p.
AfterGetNumber(p, current, l) ==
  LET resetAt == now + l.ttl
      Cont(r) == AfterIncrement(p, "checkRateLimit", r, resetAt) IN
  /\ loc' = [loc EXCEPT ![p] = [l EXCEPT !.resetAt = resetAt]]
  /\ IF AtLimit(current, l.value.n)
       THEN /\ Finish(p, RateResult(FALSE, 0, resetAt))
            /\ issued' = issued
       ELSE Enter(p, "increment", Cont)

\* `method` returned v to its caller inside operation op[p]; l is p's locals.
\* Sets pc, ret, loc, issued of p.
AfterMethod(p, method, v, l) ==
  IF op[p] = "checkRateLimit" /\ method = "get"
    THEN AfterGetNumber(p, getNumber(v), l)
    ELSE /\ loc' = [loc EXCEPT ![p] = l]
         /\ issued' = issued
         /\ CASE op[p] = "checkRateLimit" ->
                   AfterIncrement(p, "checkRateLimit", v, l.resetAt)
              [] op[p] = "getNumber" -> Finish(p, Returned(getNumber(v)))
              [] op[p] = "getJSON" -> Finish(p, Returned(getJSON(v)))
              [] OTHER -> Finish(p, Returned(v))

\* The awaited command of `method` was rejected: its catch returns the
\* fallback.  Sets pc, ret, loc, issued of p.
Rejected(p, method) ==
  LET l == [loc[p] EXCEPT !.rejected = TRUE] IN
  IF method \in Catches
    THEN AfterMethod(p, method, Fallback(method), l)
    ELSE /\ Throw(p)
         /\ loc' = [loc EXCEPT ![p] = l]
         /\ issued' = issued

\* A public operation `name` is called on key k.
Call(p, name, k, ttl, value) ==
  LET first == FirstMethod(name)
      Cont(v) ==
        Finish(p, CASE name = "checkRateLimit" -> FailOpen(value.n, ttl)
                    [] name = "getNumber" -> Returned(getNumber(v))
                    [] name = "getJSON" -> Returned(getJSON(v))
                    [] name = "setJSON" -> Returned(Void)
                    [] OTHER -> Returned(v)) IN
  /\ pc[p] = "idle"
  /\ op' = [op EXCEPT ![p] = name]
  /\ downAtEntry' = [downAtEntry EXCEPT ![p] = ~(client /\ isConnected)]
  /\ loc' = [loc EXCEPT ![p] =
               [NoLoc EXCEPT !.key = k, !.ttl = ttl, !.value = value,
                             !.seq = IF name = "checkRateLimit" THEN win.calls + 1 ELSE 0]]
  /\ Enter(p, first, Cont)
  /\ UNCHANGED <<connVars, now, storeVars, routeVars, appVars, win>>

\* checkRateLimit(key, limit, windowSeconds)
checkRateLimit(p) ==
  /\ win.calls < MaxCalls
  /\ Call(p, "checkRateLimit", RLKey, quota.windowSeconds, Num(quota.limit))

\* increment(key, ttl); ttl = 0 stands for no ttl.
increment(p, ttl) == Call(p, "increment", RLKey, ttl, Null)

\* The awaited GET of get(key) ends.
getReply(p, o) ==
  /\ pc[p] = "get"
  /\ o \in {"ok", "fail"}
  /\ CanEnd(o)
  /\ IF o = "ok" /\ kv[loc[p].key].kind # "hash"
       THEN AfterMethod(p, "get", cmdGet(loc[p].key), loc[p])
       ELSE Rejected(p, "get")
  /\ Caught(~(o = "ok" /\ kv[loc[p].key].kind # "hash"), "get")
  /\ UNCHANGED <<now, storeVars, routeVars, appVars, op, downAtEntry, win>>

\* The awaited INCR of increment ends.
incrReply(p, o) ==
  /\ pc[p] = "incr"
  /\ CanEnd(o)
  /\ LET k == loc[p].key
         result == incrValue(k) IN
     /\ Executed(o) => result <= MaxCount
     /\ kv' = IF Executed(o) /\ incrOk(k) THEN [kv EXCEPT ![k] = IntVal(result)] ELSE kv
     /\ IF o = "ok" /\ incrOk(k)
          THEN IF SetsTTL(loc[p].ttl, result)
                 THEN /\ loc' = [loc EXCEPT ![p].result = result]
                      /\ pc' = [pc EXCEPT ![p] = "incr_expire"]
                      /\ issued' = [issued EXCEPT ![p] = @ + 1]
                      /\ ret' = ret
                 ELSE AfterMethod(p, "increment", Num(result), loc[p])
          ELSE Rejected(p, "increment")
  /\ Caught(~(o = "ok" /\ incrOk(loc[p].key)), "increment")
  /\ UNCHANGED <<now, expiry, routeVars, appVars, op, downAtEntry, win>>

\* The awaited EXPIRE of increment ends.
expireReply(p, o) ==
  /\ pc[p] = "incr_expire"
  /\ CanEnd(o)
  /\ LET k == loc[p].key IN
     /\ expiry' = IF Executed(o)
                    THEN [expiry EXCEPT ![k] = expireAt(k, loc[p].ttl)]
                    ELSE expiry
     /\ IF o = "ok"
          THEN AfterMethod(p, "increment", Num(loc[p].result), loc[p])
          ELSE Rejected(p, "increment")
  /\ Caught(o # "ok", "increment")
  /\ UNCHANGED <<now, kv, routeVars, appVars, op, downAtEntry, win>>

\* ------------------------------------------------------------------ single-command methods
\* set, del, exists, decrement, hset, hget, hgetall, hdel, expire, ttl: each is
\* `if (!isAvailable) return fallback; try { await command } catch { fallback }`.
\* A hash is modelled with its one field: [kind |-> "hash", n |-> the value].
SimpleCommands ==
  {"set", "del", "exists", "decr", "hset", "hget", "hgetall", "hdel", "expire", "ttl"}
MethodOf(cmd) == IF cmd = "decr" THEN "decrement" ELSE cmd

decrValue(k) == IF kv[k].kind = "int" THEN kv[k].n - 1 ELSE -1

\* The store accepts the command on the key's current type.
CmdOk(cmd, k) ==
  CASE cmd = "decr" -> kv[k].kind \in {"null", "int"}
    [] cmd \in {"hset", "hget", "hgetall", "hdel"} -> kv[k].kind \in {"null", "hash"}
    [] OTHER -> TRUE

\* The key's value after the command.
CmdValue(cmd, k, l) ==
  CASE cmd = "set" -> l.value
    [] cmd \in {"del", "hdel"} -> Null
    [] cmd = "decr" -> IntVal(decrValue(k))
    [] cmd = "hset" -> [kind |-> "hash", n |-> l.value.n]
    [] OTHER -> kv[k]

\* (mutant) set never passes the ttl on
CmdExpiryNoTTL(cmd, k, l) ==
  CASE cmd \in {"set", "del", "hdel"} -> NoTTL
    [] cmd = "expire" -> expireAt(k, l.ttl)
    [] OTHER -> expiry[k]

\* The key's expiry after the command: set(key, value, ttl) is SETEX when ttl
\* is given and SET (which clears the TTL) when not.
CmdExpiry(cmd, k, l) ==
  CASE cmd = "set" -> IF l.ttl # 0 THEN now + l.ttl ELSE NoTTL
    [] cmd \in {"del", "hdel"} -> NoTTL
    [] cmd = "expire" -> expireAt(k, l.ttl)
    [] OTHER -> expiry[k]

\* What the method makes of the command's reply.
CmdResult(cmd, k) ==
  CASE cmd = "exists" -> Bool(kv[k] # Null)
    [] cmd = "decr" -> Num(decrValue(k))
    [] cmd = "hget" -> IF kv[k].kind = "hash" THEN RawText(kv[k].n) ELSE Null
    [] cmd = "hgetall" -> [kind |-> "obj", n |-> IF kv[k].kind = "hash" THEN 1 ELSE 0]
    [] cmd = "ttl" -> Num(IF kv[k] = Null THEN -2
                          ELSE IF expiry[k] = NoTTL THEN -1 ELSE expiry[k] - now)
    [] OTHER -> Void

\* The awaited command of a single-command method ends.
commandReply(p, o) ==
  /\ pc[p] \in SimpleCommands
  /\ CanEnd(o)
  /\ LET cmd == pc[p]
         k == loc[p].key
         done == Executed(o) /\ CmdOk(cmd, k) IN
     /\ cmd = "decr" /\ Executed(o) => decrValue(k) >= -1
     /\ kv' = IF done THEN [kv EXCEPT ![k] = CmdValue(cmd, k, loc[p])] ELSE kv
     /\ expiry' = IF done THEN [expiry EXCEPT ![k] = CmdExpiry(cmd, k, loc[p])] ELSE expiry
     /\ IF o = "ok" /\ CmdOk(cmd, k)
          THEN AfterMethod(p, MethodOf(cmd), CmdResult(cmd, k), loc[p])
          ELSE Rejected(p, MethodOf(cmd))
  /\ Caught(~(o = "ok" /\ CmdOk(pc[p], loc[p].key)), MethodOf(pc[p]))
  /\ UNCHANGED <<now, routeVars, appVars, op, downAtEntry, win>>

get(p, k) == Call(p, "get", k, 0, Null)
set(p, k, value, ttl) == Call(p, "set", k, ttl, value)
del(p, k) == Call(p, "del", k, 0, Null)
exists(p, k) == Call(p, "exists", k, 0, Null)
decrement(p, k) == Call(p, "decrement", k, 0, Null)
getNumberCall(p, k) == Call(p, "getNumber", k, 0, Null)
getJSONCall(p, k) == Call(p, "getJSON", k, 0, Null)
\* setJSON(key, value, ttl): set(key, JSON.stringify(value), ttl)
setJSON(p, k, value, ttl) == Call(p, "setJSON", k, ttl, stringify(value))
hset(p, k, value) == Call(p, "hset", k, 0, value)
hget(p, k) == Call(p, "hget", k, 0, Null)
hgetall(p, k) == Call(p, "hgetall", k, 0, Null)
hdel(p, k) == Call(p, "hdel", k, 0, Null)
expire(p, k, seconds) == Call(p, "expire", k, seconds, Null)
ttlCall(p, k) == Call(p, "ttl", k, 0, Null)

\* ------------------------------------------------------------------ deletePattern, invalidation
\* p's locals, noting that a command of its operation ended other than "ok"
\* (history).
NoteRejected(l, o, accepted) ==
  IF o = "ok" /\ accepted THEN l ELSE [l EXCEPT !.rejected = TRUE]

\* The promises an operation awaits together (Promise.all); each is a DEL of
\* del(key), or the scan stream / the bulk DEL of deletePattern(pattern).
SubDel(k) == [cmd |-> "del", arg |-> k, keys |-> {}]
SubScan(pattern) == [cmd |-> "scan", arg |-> pattern, keys |-> {}]
SubBulk(pattern, ks) == [cmd |-> "bulkdel", arg |-> pattern, keys |-> ks]
\* deletePattern's promise after the bulk DEL was rejected inside the stream's
\* 'end' listener: resolve is never called.
SubHung(pattern) == [cmd |-> "hung", arg |-> pattern, keys |-> {}]

NoSlug == ""

\* (mutant) the tag entry is deleted too
PostCachePromisesAndTag(slug) ==
  (IF slug # NoSlug THEN {SubDel(PostKey(slug))} ELSE {}) \cup
  {SubScan(PostsListPattern), SubScan(PostsPagePattern),
   SubDel(CategoriesAll), SubDel(TagsAll), SubDel(TagIdKey)}

\* invalidatePostCache(slug)
PostCachePromises(slug) ==
  (IF slug # NoSlug THEN {SubDel(PostKey(slug))} ELSE {}) \cup
  {SubScan(PostsListPattern), SubScan(PostsPagePattern),
   SubDel(CategoriesAll), SubDel(TagsAll)}

\* invalidateCategoryCache()
CategoryCachePromises == {SubDel(CategoriesAll), SubScan(PostsListPattern)}

\* invalidateTagCache()
TagCachePromises == {SubDel(TagsAll), SubScan(PostsListPattern)}

\* What the operation returns when all its promises have resolved.
AllResult(name, count) == IF name = "deletePattern" THEN Returned(Num(count)) ELSE Returned(Void)

\* An operation awaiting `promises` together is called: unavailable, each of
\* them resolves at once.
CallAll(p, name, k, promises) ==
  /\ pc[p] = "idle"
  /\ op' = [op EXCEPT ![p] = name]
  /\ downAtEntry' = [downAtEntry EXCEPT ![p] = ~(client /\ isConnected)]
  /\ IF ~isAvailable
       THEN /\ loc' = [loc EXCEPT ![p] = [NoLoc EXCEPT !.key = k]]
            /\ Finish(p, AllResult(name, 0))
            /\ issued' = [issued EXCEPT ![p] = 0]
       ELSE /\ loc' = [loc EXCEPT ![p] = [NoLoc EXCEPT !.key = k, !.pend = promises]]
            /\ pc' = [pc EXCEPT ![p] = "all"]
            /\ ret' = [ret EXCEPT ![p] = NoRet]
            /\ issued' = [issued EXCEPT ![p] = Cardinality(promises)]
  /\ UNCHANGED <<connVars, now, storeVars, routeVars, appVars, win>>

deletePattern(p, pattern) == CallAll(p, "deletePattern", pattern, {SubScan(pattern)})
invalidatePostCache(p, slug) ==
  CallAll(p, "invalidatePostCache", <<slug>>, PostCachePromises(slug))
invalidateCategoryCache(p) ==
  CallAll(p, "invalidateCategoryCache", <<>>, CategoryCachePromises)
invalidateTagCache(p) == CallAll(p, "invalidateTagCache", <<>>, TagCachePromises)

\* Promise s of p is replaced by `next` (none when it has resolved); with none
\* left the operation returns.  Sets pc, ret, loc, issued of p.
Resolve(p, s, next, o, count, sent) ==
  LET rest == (loc[p].pend \ {s}) \cup next IN
  /\ loc' = [loc EXCEPT ![p] =
               [NoteRejected(loc[p], o, TRUE) EXCEPT !.pend = rest, !.result = count]]
  /\ issued' = [issued EXCEPT ![p] = @ + sent]
  /\ IF rest = {}
       THEN Finish(p, AllResult(op[p], count))
       ELSE UNCHANGED <<pc, ret>>

\* The DEL of an awaited del(key) ends; a rejection is caught.
delResolved(p, s, o) ==
  /\ pc[p] = "all" /\ s \in loc[p].pend /\ s.cmd = "del"
  /\ CanEnd(o)
  /\ kv' = IF Executed(o) THEN [kv EXCEPT ![s.arg] = Null] ELSE kv
  /\ expiry' = IF Executed(o) THEN [expiry EXCEPT ![s.arg] = NoTTL] ELSE expiry
  /\ Resolve(p, s, {}, o, loc[p].result, 0)
  /\ Caught(o # "ok", "del")
  /\ UNCHANGED <<now, routeVars, appVars, op, downAtEntry, win>>

\* (mutant) the scan ignores the pattern
ScannedAll(pattern) == {k \in Keys : kv[k] # Null}

\* The keys the scan stream hands to its 'data' listener.
Scanned(pattern) == {k \in Keys : kv[k] # Null /\ GlobMatch(pattern, k)}

\* The scan stream of deletePattern ends: 'end' issues the bulk DEL of the keys
\* collected (resolving 0 when there are none), 'error' resolves 0.
scanEnded(p, s, o) ==
  /\ pc[p] = "all" /\ s \in loc[p].pend /\ s.cmd = "scan"
  /\ o \in {"ok", "fail"}
  /\ CanEnd(o)
  /\ IF o = "ok" /\ Scanned(s.arg) # {}
       THEN Resolve(p, s, {SubBulk(s.arg, Scanned(s.arg))}, o, loc[p].result, 1)
       ELSE Resolve(p, s, {}, o, 0, 0)
  /\ UNCHANGED <<connVars, now, storeVars, routeVars, appVars, op, downAtEntry, win>>

\* The bulk DEL issued by the 'end' listener ends: its count resolves the
\* promise; a rejection is thrown inside the listener and nothing resolves it.
bulkDelEnded(p, s, o) ==
  /\ pc[p] = "all" /\ s \in loc[p].pend /\ s.cmd = "bulkdel"
  /\ CanEnd(o)
  /\ kv' = IF Executed(o) THEN [k \in Keys |-> IF k \in s.keys THEN Null ELSE kv[k]] ELSE kv
  /\ expiry' = IF Executed(o)
                 THEN [k \in Keys |-> IF k \in s.keys THEN NoTTL ELSE expiry[k]]
                 ELSE expiry
  /\ IF o = "ok"
       THEN Resolve(p, s, {}, o, Cardinality({k \in s.keys : kv[k] # Null}), 0)
       ELSE Resolve(p, s, {SubHung(s.arg)}, o, loc[p].result, 0)
  /\ UNCHANGED <<connVars, now, routeVars, appVars, op, downAtEntry, win>>

\* ------------------------------------------------------------------ the retry policy
MaxRetries == 3
RetryStep == 50
RetryCeiling == 2000
NoDelay == -1
MaxAttempts == 5

Min(a, b) == IF a <= b THEN a ELSE b

\* (mutant) the policy grants one more attempt
StopsRetryingLater(n) == n > MaxRetries + 1

\* retryStrategy: if (times > 3) { ...; return null }
StopsRetrying(n) == n > MaxRetries

\* retryStrategy: return Math.min(times * 50, 2000)
retryDelay(n) == Min(n * RetryStep, RetryCeiling)

\* ------------------------------------------------------------------ connection events
\* client.on('connect'): this.errorLogged = false
ErrorLoggedAfterConnect == FALSE

\* (mutant) the 'close' listener leaves isConnected alone
ConnectedAfterCloseKept == isConnected

\* client.on('close'): this.isConnected = false
ConnectedAfterClose == FALSE

\* client.on('connect'): the handshake of a connection attempt succeeded; the
\* client clears its count of failed attempts.
Connected ==
  /\ client /\ status = "live" /\ ~isConnected
  /\ isConnected' = TRUE
  /\ errorLogged' = ErrorLoggedAfterConnect
  /\ warnings' = 0
  /\ times' = 0
  /\ delay' = NoDelay
  /\ retries' = 0
  /\ last' = "connect"
  /\ UNCHANGED <<client, gaveUp, status, now, storeVars, routeVars, appVars, procVars, win>>

\* client.on('error'): the first error of an episode is logged.
errorEvent ==
  /\ client /\ status = "live"
  /\ isConnected' = FALSE
  /\ warnings' = IF errorLogged THEN warnings ELSE Warned(warnings)
  /\ errorLogged' = TRUE
  /\ last' = "error"
  /\ UNCHANGED <<client, gaveUp, status, times, delay, retries, now, storeVars, routeVars, appVars,
                 procVars, win>>

\* client.on('close'), after which the client calls retryStrategy(times) with
\* its count of failed attempts: a delay schedules a reconnect, null ends the
\* client.
closeEvent ==
  /\ client /\ status = "live"
  /\ times < MaxAttempts
  /\ times' = times + 1
  /\ IF StopsRetrying(times + 1)
       THEN /\ warnings' = IF errorLogged THEN warnings ELSE Warned(warnings)
            /\ errorLogged' = TRUE
            /\ isConnected' = FALSE
            /\ delay' = NoDelay
            /\ retries' = retries
            /\ last' = "exhausted"
            /\ gaveUp' = TRUE
            /\ status' = "end"
       ELSE /\ isConnected' = ConnectedAfterClose
            /\ delay' = retryDelay(times + 1)
            /\ retries' = retries + 1
            /\ last' = "close"
            /\ UNCHANGED <<errorLogged, warnings, gaveUp, status>>
  /\ UNCHANGED <<client, now, storeVars, routeVars, appVars, procVars, win>>

\* An established connection closes.
ConnectionLost == isConnected /\ closeEvent

\* ------------------------------------------------------------------ module lifecycle
\* (mutant) onModuleInit connects without looking at the client
ConnectsAlways == TRUE

\* onModuleInit: if (!this.client) return;
Connects == client

\* onModuleInit: if (!client) return; try { await client.connect() } catch {...}
onModuleInit(p) ==
  /\ pc[p] = "idle"
  /\ op' = [op EXCEPT ![p] = "onModuleInit"]
  /\ downAtEntry' = [downAtEntry EXCEPT ![p] = ~(client /\ isConnected)]
  /\ loc' = [loc EXCEPT ![p] = NoLoc]
  /\ IF ~Connects
       THEN Finish(p, Returned(Void)) /\ issued' = [issued EXCEPT ![p] = 0]
       ELSE /\ pc' = [pc EXCEPT ![p] = "connect"]
            /\ ret' = [ret EXCEPT ![p] = NoRet]
            /\ issued' = [issued EXCEPT ![p] = 1]
  /\ status' = IF Connects THEN "live" ELSE status
  /\ UNCHANGED <<client, isConnected, errorLogged, warnings, times, delay, retries, last,
                 gaveUp, now, storeVars, routeVars, appVars, win>>

\* connect() ends: it resolves once the connection is up ('connect' has been
\* emitted), or it rejects, as it also does on a client already connecting, and
\* the catch logs the first error and marks the service disconnected.
connectEnded(p, ok) ==
  /\ pc[p] = "connect"
  /\ ok => isConnected
  /\ isConnected' = ok
  /\ warnings' = IF ok \/ errorLogged \/ "onModuleInit" \notin Catches
                   THEN warnings ELSE Warned(warnings)
  /\ errorLogged' = IF ok \/ "onModuleInit" \notin Catches THEN errorLogged ELSE TRUE
  /\ last' = IF ok THEN last ELSE "initfail"
  /\ loc' = [loc EXCEPT ![p] = NoteRejected(loc[p], IF ok THEN "ok" ELSE "fail", TRUE)]
  /\ IF ok \/ "onModuleInit" \in Catches
       THEN Finish(p, Returned(Void))
       ELSE Throw(p)
  /\ UNCHANGED <<client, times, delay, retries, gaveUp, status, now, storeVars, routeVars, appVars, op,
                 issued, downAtEntry, win>>

\* onModuleDestroy: if (client && isConnected) try { await client.quit() } catch {}
onModuleDestroy(p) ==
  /\ pc[p] = "idle"
  /\ op' = [op EXCEPT ![p] = "onModuleDestroy"]
  /\ downAtEntry' = [downAtEntry EXCEPT ![p] = ~(client /\ isConnected)]
  /\ loc' = [loc EXCEPT ![p] = NoLoc]
  /\ IF ~(client /\ isConnected)
       THEN Finish(p, Returned(Void)) /\ issued' = [issued EXCEPT ![p] = 0]
       ELSE /\ pc' = [pc EXCEPT ![p] = "quit"]
            /\ ret' = [ret EXCEPT ![p] = NoRet]
            /\ issued' = [issued EXCEPT ![p] = 1]
  /\ UNCHANGED <<connVars, now, storeVars, routeVars, appVars, win>>

\* quit() ends: the client closes the connection for good ('close' is emitted
\* and the retry policy is not asked), or quit() rejects and the catch ignores
\* it.
quitEnded(p, o) ==
  /\ pc[p] = "quit"
  /\ o \in {"ok", "fail"}
  /\ CanEnd(o)
  /\ isConnected' = IF o = "ok" THEN ConnectedAfterClose ELSE isConnected
  /\ last' = IF o = "ok" THEN "close" ELSE last
  /\ status' = IF o = "ok" THEN "end" ELSE status
  /\ loc' = [loc EXCEPT ![p] = NoteRejected(loc[p], o, TRUE)]
  /\ IF o = "ok" \/ "onModuleDestroy" \in Catches
       THEN Finish(p, Returned(Void))
       ELSE Throw(p)
  /\ UNCHANGED <<client, errorLogged, warnings, times, delay, retries, gaveUp, now,
                 storeVars, routeVars, appVars, op, issued, downAtEntry, win>>

\* The operation's promise has settled and its caller has taken the result.
Settle(p) ==
  /\ pc[p] = "done"
  /\ pc' = [pc EXCEPT ![p] = "idle"]
  /\ op' = [op EXCEPT ![p] = "none"]
  /\ loc' = [loc EXCEPT ![p] = NoLoc]
  /\ ret' = [ret EXCEPT ![p] = NoRet]
  /\ issued' = [issued EXCEPT ![p] = 0]
  /\ downAtEntry' = [downAtEntry EXCEPT ![p] = FALSE]
  /\ UNCHANGED <<connVars, now, storeVars, routeVars, appVars>>

Return(p) == Settle(p) /\ UNCHANGED win

\* The same, with the calls of the window counted (history only).
ReturnCounted(p) ==
  /\ Settle(p)
  /\ win' = [calls |-> win.calls + 1,
             allowed |-> win.allowed + IF ret[p].allowed THEN 1 ELSE 0]

\* ------------------------------------------------------------------ time
\* A second passes; the store drops the keys whose TTL has elapsed.  A quota
\* check still in flight when RLKey is dropped belongs to the next window.
\* Settled results are taken first (taking one changes nothing else, so no
\* behaviour of the program is lost).
Tick ==
  /\ now < MaxTime
  /\ \A p \in Procs : pc[p] # "done"
  /\ now' = now + 1
  /\ kv' = [k \in Keys |-> IF Expired(k, now + 1) THEN Null ELSE kv[k]]
  /\ expiry' = [k \in Keys |-> IF Expired(k, now + 1) THEN NoTTL ELSE expiry[k]]
  /\ win' = IF Expired(RLKey, now + 1) THEN [calls |-> 0, allowed |-> 0] ELSE win
  /\ loc' = [p \in Procs |->
               IF Expired(RLKey, now + 1) /\ loc[p].seq > 0
                 THEN [loc[p] EXCEPT !.seq = 1] ELSE loc[p]]
  /\ UNCHANGED <<connVars, routeVars, appVars, pc, op, ret, issued, downAtEntry>>

\* ------------------------------------------------------------------ the services
MaxGen == 1

\* The TTLs the read handlers cache with, in seconds.
ListTTL == 900
PostTTL == 3600
AggregateTTL == 86400
RelatedTTL == 1800
SearchTTL == 300

\* The database holds one post (its slug, NoSlug when the post does not
\* exist) and one category; gen counts the writes, and stands for the content
\* a read of the database returns.
\* session: the user's refresh token is not handed out, "issued", or "revoked"
\* by a logout, which found the cache available or not (history).
InitDb ==
  [gen |-> 0, slug |-> "a", category |-> TRUE, tag |-> TRUE,
   session |-> "none", revokedUp |-> FALSE]

NoHandler ==
  [name |-> "none", stage |-> "idle", key |-> <<>>, ttl |-> 0, slug |-> NoSlug,
   old |-> NoSlug, data |-> 0, value |-> Null, expect |-> "none",
   route |-> "none",   \* the gate: the route of the request
   request |-> "none", \* the gate: the request
   retried |-> FALSE,  \* the gate: the caller has come back after retryAfter (history)
   written |-> FALSE,  \* its database write has succeeded (history)
   awaited |-> 0,      \* the cache operations it has awaited to their end (history)
   at |-> 0]           \* when the last of them ended (history)
NoOut == [st |-> "none", data |-> 0]
Ok(data) == [st |-> "ok", data |-> data]
Failed == [st |-> "failed", data |-> 0]

\* The database has the row the handler h reads (findUnique) or writes
\* (update, delete; create needs the slug to be free).
Found(h, d) ==
  CASE h.name = "BlogService.findOne" -> d.slug = h.slug
    [] h.name \in {"BlogService.getPostById", "BlogService.update", "BlogService.remove"} ->
         d.slug # NoSlug
    [] h.name = "BlogService.create" -> d.slug = NoSlug
    [] h.name \in {"CategoriesService.findOne", "CategoriesService.update",
                   "CategoriesService.remove"} -> d.category
    [] h.name \in {"TagsService.findOne", "TagsService.update", "TagsService.remove"} -> d.tag
    [] OTHER -> TRUE

\* What the handler returns with caching disabled (history).
Cacheless(h, d) == IF Found(h, d) THEN "ok" ELSE "failed"

\* The database after handler h's write.
Written(h, d) ==
  CASE h.name \in {"BlogService.create", "BlogService.update"} ->
         [d EXCEPT !.gen = @ + 1, !.slug = h.slug]
    [] h.name = "BlogService.remove" -> [d EXCEPT !.gen = @ + 1, !.slug = NoSlug]
    [] h.name = "CategoriesService.remove" -> [d EXCEPT !.gen = @ + 1, !.category = FALSE]
    [] h.name = "TagsService.remove" -> [d EXCEPT !.gen = @ + 1, !.tag = FALSE]
    [] h.name \in {"TagsService.create", "TagsService.update"} ->
         [d EXCEPT !.gen = @ + 1, !.tag = TRUE]
    [] OTHER -> [d EXCEPT !.gen = @ + 1, !.category = TRUE]

\* A handler is called.
Start(p, name, stage, k, ttl, slug) ==
  LET h == [NoHandler EXCEPT !.name = name, !.stage = stage, !.key = k, !.ttl = ttl,
                             !.slug = slug] IN
  /\ handler[p].stage = "idle"
  /\ pc[p] = "idle"
  /\ handler' = [handler EXCEPT ![p] = [h EXCEPT !.expect = Cacheless(h, db)]]
  /\ UNCHANGED <<connVars, now, storeVars, routeVars, procVars, win, db, out>>

StartRead(p, name, k, ttl, slug) == Start(p, name, "getJSON", k, ttl, slug)
\* (mutant) the write handler invalidates before it writes
StartWriteInvalidatingFirst(p, name, slug) ==
  /\ db.gen < MaxGen
  /\ Start(p, name, "invalidate", <<>>, 0, slug)

StartWrite(p, name, slug) ==
  /\ db.gen < MaxGen
  /\ Start(p, name, "write", <<>>, 0, slug)

BlogService_findAll(p) == StartRead(p, "BlogService.findAll", ListKey, ListTTL, NoSlug)
BlogService_findOne(p, slug) == StartRead(p, "BlogService.findOne", PostKey(slug), PostTTL, slug)
BlogService_getCategories(p) ==
  StartRead(p, "BlogService.getCategories", CategoriesAll, AggregateTTL, NoSlug)
BlogService_getTags(p) == StartRead(p, "BlogService.getTags", TagsAll, AggregateTTL, NoSlug)
BlogService_getRelatedPosts(p) ==
  StartRead(p, "BlogService.getRelatedPosts", RelatedKey, RelatedTTL, NoSlug)
BlogService_getPostById(p) ==
  StartRead(p, "BlogService.getPostById", PostIdKey("1"), PostTTL, NoSlug)
BlogService_create(p, slug) == StartWrite(p, "BlogService.create", slug)
BlogService_update(p, slug) == StartWrite(p, "BlogService.update", slug)
BlogService_remove(p) == StartWrite(p, "BlogService.remove", NoSlug)
CategoriesService_findAll(p) ==
  StartRead(p, "CategoriesService.findAll", CategoriesAll, AggregateTTL, NoSlug)
CategoriesService_findOne(p) ==
  StartRead(p, "CategoriesService.findOne", CategoryIdKey, PostTTL, NoSlug)
CategoriesService_create(p) == StartWrite(p, "CategoriesService.create", NoSlug)
CategoriesService_update(p) == StartWrite(p, "CategoriesService.update", NoSlug)
CategoriesService_remove(p) == StartWrite(p, "CategoriesService.remove", NoSlug)
TagsService_findAll(p) == StartRead(p, "TagsService.findAll", TagsAll, AggregateTTL, NoSlug)
TagsService_findOne(p) == StartRead(p, "TagsService.findOne", TagIdKey, PostTTL, NoSlug)
TagsService_create(p) == StartWrite(p, "TagsService.create", NoSlug)
TagsService_update(p) == StartWrite(p, "TagsService.update", NoSlug)
TagsService_remove(p) == StartWrite(p, "TagsService.remove", NoSlug)
SearchService_search(p) == StartRead(p, "SearchService.search", SearchKey, SearchTTL, NoSlug)

\* The handler of p goes on to `stage` ("returned": it returns o) after the
\* awaited cache operation has settled.
Resume(p, stage, o) ==
  /\ pc[p] = "done"
  /\ pc' = [pc EXCEPT ![p] = "idle"]
  /\ op' = [op EXCEPT ![p] = "none"]
  /\ loc' = [loc EXCEPT ![p] = NoLoc]
  /\ ret' = [ret EXCEPT ![p] = NoRet]
  /\ issued' = [issued EXCEPT ![p] = 0]
  /\ downAtEntry' = [downAtEntry EXCEPT ![p] = FALSE]
  /\ handler' = [handler EXCEPT ![p].stage = stage, ![p].awaited = @ + 1, ![p].at = now]
  /\ out' = [out EXCEPT ![p] = o]
  /\ UNCHANGED <<connVars, now, storeVars, routeVars, win, db>>

\* const cached = await this.redis.getJSON(cacheKey)
CacheRead(p) ==
  /\ handler[p].stage = "getJSON"
  /\ getJSONCall(p, handler[p].key)

\* if (cached) return cached; SearchService.search alone wraps the read in a
\* try block.
CacheReadEnded(p) ==
  /\ handler[p].stage = "getJSON"
  /\ IF ret[p].st = "threw"
       THEN IF handler[p].name = "SearchService.search"
              THEN Resume(p, "read", NoOut)
              ELSE Resume(p, "returned", Failed)
       ELSE IF Truthy(ret[p].val)
              THEN Resume(p, "returned", Ok(ret[p].val.n))
              ELSE Resume(p, "read", NoOut)

\* The handler reads the database; a row not found is a NotFoundException.
DbRead(p) ==
  /\ handler[p].stage = "read"
  /\ IF Found(handler[p], db)
       THEN /\ handler' = [handler EXCEPT ![p].stage = "setJSON", ![p].data = db.gen,
                                          ![p].value = Obj(db.gen)]
            /\ out' = out
       ELSE /\ handler' = [handler EXCEPT ![p].stage = "returned"]
            /\ out' = [out EXCEPT ![p] = Failed]
  /\ UNCHANGED <<connVars, now, storeVars, routeVars, procVars, win, db>>

\* await this.redis.setJSON(cacheKey, result, ttl)
CacheWrite(p) ==
  /\ handler[p].stage = "setJSON"
  /\ setJSON(p, handler[p].key, handler[p].value, handler[p].ttl)

CacheWriteEnded(p) ==
  /\ handler[p].stage = "setJSON"
  /\ IF ret[p].st = "threw" /\ handler[p].name # "SearchService.search"
       THEN Resume(p, "returned", Failed)
       ELSE Resume(p, "returned", Ok(handler[p].data))

\* The handler writes the database; update first reads the post's old slug.
\* A row not found, or a slug already taken, is an exception of the database
\* client.
DbWrite(p) ==
  /\ handler[p].stage = "write"
  /\ IF Found(handler[p], db)
       THEN /\ db' = Written(handler[p], db)
            /\ handler' = [handler EXCEPT ![p].stage = "invalidate",
                                          ![p].old = db.slug,
                                          ![p].data = db.gen + 1,
                                          ![p].written = TRUE]
            /\ out' = out
       ELSE /\ db' = db
            /\ handler' = [handler EXCEPT ![p].stage = "returned"]
            /\ out' = [out EXCEPT ![p] = Failed]
  /\ UNCHANGED <<connVars, now, storeVars, routeVars, procVars, win>>

\* await this.redis.invalidatePostCache(slug) / invalidateCategoryCache()
Invalidate(p) ==
  LET h == handler[p] IN
  /\ h.stage = "invalidate"
  /\ CASE h.name \in {"BlogService.create", "BlogService.remove"} ->
            invalidatePostCache(p, IF h.name = "BlogService.create" THEN h.slug ELSE h.old)
       [] h.name = "BlogService.update" -> invalidatePostCache(p, h.old)
       [] h.name \in {"TagsService.create", "TagsService.update", "TagsService.remove"} ->
            invalidateTagCache(p)
       [] OTHER -> invalidateCategoryCache(p)

\* What follows the first invalidation: update invalidates the new slug when
\* the slug changed; the category and tag handlers delete their <kind>:id:<id> entry.
InvalidateEnded(p) ==
  LET h == handler[p] IN
  /\ h.stage = "invalidate"
  /\ IF ret[p].st = "threw"
       THEN Resume(p, "returned", Failed)
       ELSE CASE h.name = "BlogService.update" /\ h.slug # h.old ->
                   Resume(p, "invalidate2", NoOut)
              [] h.name \in {"CategoriesService.update", "CategoriesService.remove",
                              "TagsService.update", "TagsService.remove"} ->
                   Resume(p, "del", NoOut)
              [] OTHER -> Resume(p, "returned", Ok(h.data))

\* if (post.slug !== oldPost?.slug) await this.redis.invalidatePostCache(post.slug)
InvalidateNew(p) ==
  /\ handler[p].stage = "invalidate2"
  /\ invalidatePostCache(p, handler[p].slug)

\* await this.redis.del(`category:id:${id}`) / del(`tag:id:${id}`)
DelEntry(p) ==
  /\ handler[p].stage = "del"
  /\ del(p, IF handler[p].name \in {"TagsService.update", "TagsService.remove"}
               THEN TagIdKey ELSE CategoryIdKey)

LastEnded(p) ==
  /\ handler[p].stage \in {"invalidate2", "del"}
  /\ IF ret[p].st = "threw"
       THEN Resume(p, "returned", Failed)
       ELSE Resume(p, "returned", Ok(handler[p].data))

\* A caller of the cache writes an entry and later reads it back: with
\* setJSON and getJSON, or with set and get.
WriteThenRead(p, name, k, value, ttl) ==
  /\ handler[p].stage = "idle"
  /\ pc[p] = "idle"
  /\ handler' = [handler EXCEPT ![p] =
                   [NoHandler EXCEPT !.name = name, !.stage = "put", !.key = k,
                                     !.value = value, !.ttl = ttl]]
  /\ UNCHANGED <<connVars, now, storeVars, routeVars, procVars, win, db, out>>

Put(p) ==
  LET h == handler[p] IN
  /\ h.stage = "put"
  /\ IF h.name = "setJSON/getJSON"
       THEN setJSON(p, h.key, h.value, h.ttl)
       ELSE set(p, h.key, h.value, h.ttl)

PutEnded(p) ==
  /\ handler[p].stage = "put"
  /\ Resume(p, "fetch", NoOut)

Fetch(p) ==
  LET h == handler[p] IN
  /\ h.stage = "fetch"
  /\ IF h.name = "setJSON/getJSON" THEN getJSONCall(p, h.key) ELSE get(p, h.key)

FetchEnded(p) ==
  /\ handler[p].stage = "fetch"
  /\ Resume(p, "returned", NoOut)

\* The handler's caller takes what it returned.
HandlerReturn(p) ==
  /\ handler[p].stage = "returned"
  /\ handler' = [handler EXCEPT ![p] = NoHandler]
  /\ out' = [out EXCEPT ![p] = NoOut]
  /\ UNCHANGED <<connVars, now, storeVars, routeVars, procVars, win, db>>

\* ------------------------------------------------------------------ AuthService
RefreshTTL == 604800

\* A handler of AuthService is called.
StartAuth(p, name, stage, d) ==
  /\ handler[p].stage = "idle"
  /\ pc[p] = "idle"
  /\ handler' = [handler EXCEPT ![p] =
                   [NoHandler EXCEPT !.name = name, !.stage = stage, !.key = TokenKey,
                                     !.ttl = RefreshTTL, !.expect = "ok"]]
  /\ db' = d
  /\ UNCHANGED <<connVars, now, storeVars, routeVars, procVars, win, out>>

\* login(loginDto) with valid credentials: generateTokens makes the refresh
\* token.
AuthService_login(p) ==
  /\ db.session = "none"
  /\ StartAuth(p, "AuthService.login", "store", [db EXCEPT !.session = "issued"])

\* refreshToken(refreshToken, userId) with the token login has handed out
AuthService_refreshToken(p) ==
  /\ db.session # "none"
  /\ StartAuth(p, "AuthService.refreshToken", "verify", db)

\* logout(refreshToken, userId)
AuthService_logout(p) ==
  /\ db.session = "issued"
  /\ StartAuth(p, "AuthService.logout", "revoke",
               [db EXCEPT !.session = "revoked", !.revokedUp = client /\ isConnected])

\* generateTokens: await this.redis.set(refreshTokenKey, JSON.stringify({...}),
\* 7 * 24 * 60 * 60) in try / catch; refreshToken stores the token it makes.
TokenStore(p) ==
  /\ handler[p].stage = "store"
  /\ set(p, IF handler[p].name = "AuthService.refreshToken" THEN NewTokenKey ELSE TokenKey,
          stringify(Obj(1)), handler[p].ttl)

\* generateTokens returns the tokens, stored or not.
TokenStoreEnded(p) ==
  /\ handler[p].stage = "store"
  /\ Resume(p, "returned", Ok(1))

\* const tokenData = await this.redis.get(refreshTokenKey)
TokenRead(p) ==
  /\ handler[p].stage = "verify"
  /\ get(p, handler[p].key)

\* if (!tokenData) throw new UnauthorizedException('Invalid refresh token');
\* otherwise the user is read and generateTokens(user) is called.
TokenReadEnded(p) ==
  /\ handler[p].stage = "verify"
  /\ IF Truthy(ret[p].val)
       THEN Resume(p, "store", NoOut)
       ELSE Resume(p, "returned", Failed)

\* await this.redis.del(refreshTokenKey)
TokenDelete(p) ==
  /\ handler[p].stage = "revoke"
  /\ del(p, handler[p].key)

\* return { success: true, message: 'Logged out successfully' }
TokenDeleteEnded(p) ==
  /\ handler[p].stage = "revoke"
  /\ Resume(p, "returned", Ok(0))

\* ------------------------------------------------------------------ the request gate
DefaultLimit == 100
DefaultWindow == 60

\* Reflect.getMetadata('rateLimit', handler) of a handler without @RateLimit
NoMeta == [limit |-> 0, windowSeconds |-> 0]

\* The two RateLimitGuard.canActivate of the sources: with the global default
\* for handlers without @RateLimit, and returning true for them unchecked.
Guards == {"fallback", "declared"}

\* The routes: two handlers named findAll in two controllers, both declaring
\* @RateLimit(limit, windowSeconds) under @UseGuards(RateLimitGuard), and a
\* handler that declares nothing.
BlogFindAll ==
  [controller |-> "BlogController", name |-> "findAll", method |-> "GET",
   path |-> "/blogs", declared |-> TRUE, useGuards |-> TRUE]
ProblemsFindAll ==
  [controller |-> "ProblemsController", name |-> "findAll", method |-> "GET",
   path |-> "/problems", declared |-> TRUE, useGuards |-> TRUE]
GetSettings ==
  [controller |-> "SettingsController", name |-> "getSettings", method |-> "GET",
   path |-> "/settings", declared |-> FALSE, useGuards |-> FALSE]

Routes == {BlogFindAll, ProblemsFindAll, GetSettings}

\* How often RateLimitGuard runs for a request: as APP_GUARD, and once more
\* where the controller or handler names it in @UseGuards.
Registrations(route) == IF route.useGuards THEN 2 ELSE 1

\* The caller whose requests pass the gate one after the other.
Caller == CHOOSE p \in Procs : \A q \in Procs : p <= q

\* The route the requests go to: one that declares the quota, if there is one.
RequestedRoute == IF quota = NoMeta THEN GetSettings ELSE BlogFindAll

\* Reflect.getMetadata('rateLimit', handler)
Meta(route) == IF route.declared THEN quota ELSE NoMeta

\* A request: request.user?.id (0: none), the X-Forwarded-For hops (<<>>: no
\* header), request.ip and the socket's remote address ("": none; request.ip
\* is taken from the socket's remote address).
Requests ==
  {r \in [user : {0, 1}, forwardedFor : {<<>>, <<"x1">>, <<"x2", "x1">>},
          ip : {"", "ip"}, remote : {"", "ip"}] : r.ip # "" => r.remote = r.ip}
PlainRequest == [user |-> 0, forwardedFor |-> <<>>, ip |-> "ip", remote |-> "ip"]

\* `user:${request.user.id}`
UserIdentity(id) == IF id = 1 THEN "user:1" ELSE "user:2"

\* a || b on strings
OrElse(a, b) == IF a # "" THEN a ELSE b

\* getIdentifier(request) of either guard.
getIdentifier(g, r) ==
  IF r.user # 0
    THEN UserIdentity(r.user)
    ELSE IF g = "fallback"
      THEN LET ip == IF r.forwardedFor # <<>> THEN r.forwardedFor[1] ELSE r.ip IN
           OrElse(OrElse(ip, r.remote), "unknown")
      ELSE OrElse(OrElse(r.ip, r.remote), "unknown")

\* What the gate leaves on the response: the three X-RateLimit-* headers or
\* none, and the retryAfter of a rejection; with them, how many of the
\* request's checkRateLimit calls reported a counter they had incremented
\* (history).
NoHeaders ==
  [set |-> FALSE, limit |-> 0, remaining |-> 0, reset |-> 0, retryAfter |-> 0,
   counted |-> 0]
Headers(limit, result) ==
  [set |-> TRUE, limit |-> limit, remaining |-> result.remaining, reset |-> result.resetAt,
   retryAfter |-> 0, counted |-> 0]
Response(st, headers) == [st |-> st, data |-> headers]

\* The clock in ms, and Math.ceil(ms / 1000)
Millis(t) == t * 1000
CeilSeconds(ms) == (ms + 999) \div 1000

\* retryAfter = Math.ceil((result.resetAt - Date.now()) / 1000)
RetryAfter(resetAt) == CeilSeconds(Millis(resetAt) - Millis(now))

\* throw new HttpException({ statusCode: 429, ..., retryAfter }, 429)
Rejection(retryAfter) ==
  Response("rejected", [NoHeaders EXCEPT !.retryAfter = retryAfter])

\* The key, limit and window canActivate hands to checkRateLimit.
GateQuota(meta, route, identifier) ==
  IF meta = NoMeta
    THEN [key |-> GlobalKey(route.method, route.path, identifier),
          limit |-> DefaultLimit, windowSeconds |-> DefaultWindow, from |-> "fallback"]
    ELSE [key |-> GateKey(route.name, identifier),
          limit |-> meta.limit, windowSeconds |-> meta.windowSeconds, from |-> "declared"]

\* canActivate up to its await: without metadata the guard without a default
\* returns true at once; otherwise the quota to check is chosen.
canActivate(p, route, request) ==
  LET q == GateQuota(Meta(route), route, getIdentifier(guard, request))
      h == [NoHandler EXCEPT !.name = "canActivate", !.route = route,
                             !.request = request] IN
  /\ handler[p].stage = "idle"
  /\ pc[p] = "idle"
  /\ IF Meta(route) = NoMeta /\ guard = "declared"
       THEN /\ handler' = [handler EXCEPT ![p] = [h EXCEPT !.stage = "returned"]]
            /\ out' = [out EXCEPT ![p] = Response("passed", NoHeaders)]
       ELSE /\ handler' = [handler EXCEPT ![p] =
                             [h EXCEPT !.stage = "checkRateLimit", !.key = q.key,
                                       !.data = q.limit, !.ttl = q.windowSeconds,
                                       !.expect = q.from]]
            /\ out' = out
  /\ UNCHANGED <<connVars, now, storeVars, routeVars, procVars, win, db>>

\* const result = await this.redis.checkRateLimit(key, limit, windowSeconds)
GateCheck(p) ==
  LET h == handler[p] IN
  /\ h.stage = "checkRateLimit"
  /\ Call(p, "checkRateLimit", h.key, h.ttl, Num(h.data))

Counted(p) == IF out[p].st = "passed" THEN out[p].data.counted ELSE 0

\* checkRateLimit has returned: not allowed, canActivate throws the 429
\* HttpException; allowed, it sets the three headers and returns true, and the
\* guard's next registration, if any, runs canActivate on the same request.
GateCheckEnded(p) ==
  LET h == handler[p] IN
  /\ h.stage = "checkRateLimit"
  /\ IF ~ret[p].allowed
       THEN Resume(p, "returned", Rejection(RetryAfter(ret[p].resetAt)))
       ELSE Resume(p, IF h.awaited + 1 < Registrations(h.route)
                        THEN "checkRateLimit" ELSE "returned",
                   Response("passed",
                            [Headers(h.data, ret[p]) EXCEPT !.counted =
                               Counted(p) + IF ret[p].remaining < h.data THEN 1 ELSE 0]))

\* The rejected caller sends the request again retryAfter seconds after the
\* rejection.
RetryLater(p) ==
  LET h == handler[p] IN
  /\ h.name = "canActivate" /\ h.stage = "returned"
  /\ out[p].st = "rejected" /\ ~h.retried
  /\ now = h.at + out[p].data.retryAfter
  /\ handler' = [handler EXCEPT ![p] =
                   [h EXCEPT !.stage = "checkRateLimit", !.awaited = 0, !.retried = TRUE]]
  /\ out' = [out EXCEPT ![p] = NoOut]
  /\ UNCHANGED <<connVars, now, storeVars, routeVars, procVars, win, db>>

InitApp ==
  /\ db = InitDb
  /\ handler = [p \in Procs |-> NoHandler]
  /\ out = [p \in Procs |-> NoOut]

\* ------------------------------------------------------------------ specifications
Quotas == [limit : 1..MaxLimit, windowSeconds : 1..MaxWindow]

\* The logging flag and the client of a service whose onModuleInit has run.
InitLog ==
  /\ errorLogged = FALSE
  /\ warnings = 0
  /\ times = 0
  /\ delay = NoDelay
  /\ retries = 0
  /\ last = IF isConnected THEN "connect" ELSE "none"
  /\ gaveUp = FALSE
  /\ status = IF client THEN "live" ELSE "wait"

InitProcs ==
  /\ pc = [p \in Procs |-> "idle"]
  /\ op = [p \in Procs |-> "none"]
  /\ loc = [p \in Procs |-> NoLoc]
  /\ ret = [p \in Procs |-> NoRet]
  /\ issued = [p \in Procs |-> 0]
  /\ downAtEntry = [p \in Procs |-> FALSE]
  /\ win = [calls |-> 0, allowed |-> 0]

InitStore ==
  /\ now = 0
  /\ kv = [k \in Keys |-> Null]
  /\ expiry = [k \in Keys |-> NoTTL]

\* The services over a database that holds the post, or does not yet.
InitServices(connected) ==
  /\ client \in connected
  /\ isConnected \in {client, FALSE} \cap connected
  /\ quota = [limit |-> MaxLimit, windowSeconds |-> MaxWindow]
  /\ guard = "declared"
  /\ InitStore
  /\ InitProcs
  /\ InitLog
  /\ db \in {InitDb, [InitDb EXCEPT !.slug = NoSlug]}
  /\ handler = [p \in Procs |-> NoHandler]
  /\ out = [p \in Procs |-> NoOut]

\* The service after construction and onModuleInit, REDIS_ENABLED or not.
Init ==
  /\ client \in BOOLEAN
  /\ isConnected \in {client, FALSE}
  /\ quota \in Quotas
  /\ guard = "declared"
  /\ InitStore
  /\ InitProcs
  /\ InitLog
  /\ InitApp

\* The Rate Limiter under racing requests, failing commands, a dropping
\* connection and the passing of time.
Next ==
  \/ \E p \in Procs : checkRateLimit(p)
  \/ \E p \in Procs, o \in Outcomes : getReply(p, o)
  \/ \E p \in Procs, o \in Outcomes : incrReply(p, o)
  \/ \E p \in Procs, o \in Outcomes : expireReply(p, o)
  \/ \E p \in Procs : Return(p)
  \/ Tick
  \/ ConnectionLost
  \/ Connected

Spec == Init /\ [][Next]_vars

\* The same with direct increment(key, ttl) calls on the counter.
NextTTL ==
  \/ \E p \in Procs : checkRateLimit(p)
  \/ \E p \in Procs, ttl \in 1..MaxWindow : increment(p, ttl)
  \/ \E p \in Procs, o \in Outcomes : getReply(p, o)
  \/ \E p \in Procs, o \in Outcomes : incrReply(p, o)
  \/ \E p \in Procs, o \in Outcomes : expireReply(p, o)
  \/ \E p \in Procs : Return(p)
  \/ Tick
  \/ ConnectionLost
  \/ Connected

SpecTTL == Init /\ [][NextTTL]_vars

\* One caller at a time on a connected cache whose commands all succeed.
InitSeq ==
  /\ client = TRUE /\ isConnected = TRUE
  /\ quota \in Quotas
  /\ guard = "declared"
  /\ InitStore
  /\ InitProcs
  /\ InitLog
  /\ InitApp

NextSeq ==
  \/ checkRateLimit(1)
  \/ getReply(1, "ok")
  \/ incrReply(1, "ok")
  \/ expireReply(1, "ok")
  \/ ReturnCounted(1)
  \/ Tick

SpecSeq == InitSeq /\ [][NextSeq]_vars

\* Racing callers inside one window on a connected cache whose commands all succeed.
NextConc ==
  \/ \E p \in Procs : checkRateLimit(p)
  \/ \E p \in Procs : getReply(p, "ok")
  \/ \E p \in Procs : incrReply(p, "ok")
  \/ \E p \in Procs : expireReply(p, "ok")
  \/ \E p \in Procs : ReturnCounted(p)

SpecConc == InitSeq /\ [][NextConc]_vars

\* Racing increment(key, ttl) calls on a connected cache whose commands all succeed.
NextIncr ==
  \/ \E p \in Procs, ttl \in 0..MaxWindow : increment(p, ttl)
  \/ \E p \in Procs : incrReply(p, "ok")
  \/ \E p \in Procs : expireReply(p, "ok")
  \/ \E p \in Procs : ReturnCounted(p)

SpecIncr == InitSeq /\ [][NextIncr]_vars

\* Every key-value operation, one caller at a time, under failing commands and
\* a dropping connection.
StoredTexts == {JsonText(1), RawText(1)}
NextKV ==
  \/ checkRateLimit(1)
  \/ \E t \in 0..1 : increment(1, t)
  \/ \E k \in {RLKey, ListKey} : get(1, k)
  \/ \E v \in StoredTexts, t \in 0..1 : set(1, ListKey, v, t)
  \/ \E k \in {RLKey, ListKey} : del(1, k)
  \/ exists(1, ListKey)
  \/ decrement(1, ListKey)
  \/ \E k \in {RLKey, ListKey} : getNumberCall(1, k)
  \/ getJSONCall(1, ListKey)
  \/ \E t \in 0..1 : setJSON(1, ListKey, Obj(1), t)
  \/ hset(1, ListKey, RawText(1))
  \/ hget(1, ListKey)
  \/ hgetall(1, ListKey)
  \/ hdel(1, ListKey)
  \/ expire(1, ListKey, 1)
  \/ ttlCall(1, ListKey)
  \/ \E o \in Outcomes : getReply(1, o)
  \/ \E o \in Outcomes : incrReply(1, o)
  \/ \E o \in Outcomes : expireReply(1, o)
  \/ \E o \in Outcomes : commandReply(1, o)
  \/ \E pattern \in {PostsListPattern, PostsPagePattern} : deletePattern(1, pattern)
  \/ \E slug \in Slugs \cup {NoSlug} : invalidatePostCache(1, slug)
  \/ invalidateCategoryCache(1)
  \/ invalidateTagCache(1)
  \/ \E s \in loc[1].pend, o \in Outcomes : delResolved(1, s, o)
  \/ \E s \in loc[1].pend, o \in Outcomes : scanEnded(1, s, o)
  \/ \E s \in loc[1].pend, o \in Outcomes : bulkDelEnded(1, s, o)
  \/ onModuleInit(1)
  \/ \E ok \in BOOLEAN : connectEnded(1, ok)
  \/ onModuleDestroy(1)
  \/ \E o \in Outcomes : quitEnded(1, o)
  \/ Return(1)
  \/ ConnectionLost
  \/ Connected

SpecKV == Init /\ [][NextKV]_vars

\* invalidatePostCache on an available cache that holds any entries, one
\* caller, no failing command.
InvKeys ==
  {PostKey("a"), PostKey("b"), ListKey, ListKey2, PageKey, CategoriesAll, TagsAll,
   CategoryIdKey, TagIdKey}
NextInv ==
  \/ \E k \in InvKeys : setJSON(1, k, Obj(1), 0)
  \/ commandReply(1, "ok")
  \/ \E slug \in Slugs \cup {NoSlug} : invalidatePostCache(1, slug)
  \/ \E s \in loc[1].pend : delResolved(1, s, "ok")
  \/ \E s \in loc[1].pend : scanEnded(1, s, "ok")
  \/ \E s \in loc[1].pend : bulkDelEnded(1, s, "ok")
  \/ Return(1)

SpecInv == InitSeq /\ [][NextInv]_vars

\* The steps of a handler of p between its call and its return.
HandlerStep(p, outcomes) ==
  \/ CacheRead(p)
  \/ CacheReadEnded(p)
  \/ DbRead(p)
  \/ CacheWrite(p)
  \/ CacheWriteEnded(p)
  \/ DbWrite(p)
  \/ Invalidate(p)
  \/ InvalidateEnded(p)
  \/ InvalidateNew(p)
  \/ LastEnded(p)
  \/ HandlerReturn(p)
  \/ \E o \in outcomes : getReply(p, o)
  \/ \E o \in outcomes : commandReply(p, o)
  \/ \E s \in loc[p].pend, o \in outcomes : delResolved(p, s, o)
  \/ \E s \in loc[p].pend, o \in outcomes : scanEnded(p, s, o)
  \/ \E s \in loc[p].pend, o \in outcomes : bulkDelEnded(p, s, o)

\* The post handlers and the search handler, one request at a time, on an
\* available cache with no failing command.
NextPosts ==
  \/ BlogService_findAll(1)
  \/ \E slug \in Slugs : BlogService_findOne(1, slug)
  \/ BlogService_getCategories(1)
  \/ BlogService_getTags(1)
  \/ BlogService_getRelatedPosts(1)
  \/ BlogService_getPostById(1)
  \/ SearchService_search(1)
  \/ \E slug \in Slugs : BlogService_create(1, slug)
  \/ \E slug \in Slugs : BlogService_update(1, slug)
  \/ BlogService_remove(1)
  \/ HandlerStep(1, {"ok"})

SpecPosts == InitServices({TRUE}) /\ [][NextPosts]_vars

\* A post write handler and a reader of the post and of the listing, running
\* concurrently on an available cache with no failing command.
NextRace ==
  \/ \E slug \in Slugs : BlogService_update(1, slug)
  \/ BlogService_remove(1)
  \/ BlogService_findAll(2)
  \/ \E slug \in Slugs : BlogService_findOne(2, slug)
  \/ \E p \in {1, 2} : HandlerStep(p, {"ok"})

SpecRace == InitServices({TRUE}) /\ [][NextRace]_vars

\* One user's login, refreshToken and logout, one request at a time, under
\* failing commands and a dropping connection.
NextAuth ==
  \/ AuthService_login(1)
  \/ AuthService_refreshToken(1)
  \/ AuthService_logout(1)
  \/ TokenStore(1)
  \/ TokenStoreEnded(1)
  \/ TokenRead(1)
  \/ TokenReadEnded(1)
  \/ TokenDelete(1)
  \/ TokenDeleteEnded(1)
  \/ HandlerReturn(1)
  \/ \E o \in Outcomes : getReply(1, o)
  \/ \E o \in Outcomes : commandReply(1, o)
  \/ Tick
  \/ ConnectionLost
  \/ Connected

SpecAuth == InitServices(BOOLEAN) /\ [][NextAuth]_vars

\* A cached payload is overwritten with text that is not JSON.
Corrupt(p, k) ==
  /\ handler[p].stage = "idle"
  /\ set(p, k, RawText(1), 0)

CorruptEnded(p) ==
  /\ handler[p].stage = "idle"
  /\ Return(p)

\* The category, search and write handlers, one request at a time, under
\* failing commands, malformed payloads and a dropping connection.
NextCache ==
  \/ BlogService_findAll(1)
  \/ CategoriesService_findAll(1)
  \/ CategoriesService_findOne(1)
  \/ SearchService_search(1)
  \/ \E slug \in Slugs : BlogService_create(1, slug)
  \/ \E slug \in Slugs : BlogService_update(1, slug)
  \/ BlogService_remove(1)
  \/ CategoriesService_create(1)
  \/ CategoriesService_update(1)
  \/ CategoriesService_remove(1)
  \/ \E k \in {CategoriesAll, CategoryIdKey, SearchKey} : Corrupt(1, k)
  \/ CorruptEnded(1)
  \/ DelEntry(1)
  \/ HandlerStep(1, Outcomes)
  \/ ConnectionLost
  \/ Connected

SpecCache == InitServices(BOOLEAN) /\ [][NextCache]_vars

\* deletePattern by one caller while another writes and deletes entries; the
\* scan stream may report an error.
PatternKeys == {ListKey, ListKey2, PageKey, PostKey("a")}
NextPattern ==
  \/ \E pattern \in {PostsListPattern, PostsPagePattern} : deletePattern(1, pattern)
  \/ \E s \in loc[1].pend, o \in {"ok", "fail"} : scanEnded(1, s, o)
  \/ \E s \in loc[1].pend : bulkDelEnded(1, s, "ok")
  \/ \E k \in PatternKeys : setJSON(2, k, Obj(1), 0)
  \/ \E k \in PatternKeys : del(2, k)
  \/ commandReply(2, "ok")
  \/ \E p \in {1, 2} : Return(p)

SpecPattern == InitSeq /\ [][NextPattern]_vars

\* deletePattern under failing commands, every command the store was sent
\* ending sooner or later (answered, rejected or timed out).
ScanEnds == \E s \in loc[1].pend, o \in {"ok", "fail"} : scanEnded(1, s, o)
BulkDelEnds == \E s \in loc[1].pend, o \in Outcomes : bulkDelEnded(1, s, o)
NextResolve ==
  \/ \E pattern \in {PostsListPattern, PostsPagePattern} : deletePattern(1, pattern)
  \/ ScanEnds
  \/ BulkDelEnds
  \/ \E k \in PatternKeys : setJSON(2, k, Obj(1), 0)
  \/ commandReply(2, "ok")
  \/ \E p \in {1, 2} : Return(p)

SpecResolve ==
  InitSeq /\ [][NextResolve]_vars /\ WF_vars(ScanEnds) /\ WF_vars(BulkDelEnds)

\* Every write handler, one request at a time, under failing commands and a
\* dropping connection; findAll fills the list cache the invalidations scan.
NextWrites ==
  \/ BlogService_findAll(1)
  \/ \E slug \in Slugs : BlogService_create(1, slug)
  \/ \E slug \in Slugs : BlogService_update(1, slug)
  \/ BlogService_remove(1)
  \/ CategoriesService_create(1)
  \/ CategoriesService_update(1)
  \/ CategoriesService_remove(1)
  \/ TagsService_create(1)
  \/ TagsService_update(1)
  \/ TagsService_remove(1)
  \/ DelEntry(1)
  \/ HandlerStep(1, Outcomes)
  \/ ConnectionLost
  \/ Connected

SpecWrites == InitServices(BOOLEAN) /\ [][NextWrites]_vars

\* An entry is written and read back by one caller on an available cache with
\* no failing command, while time passes.
JsonValues == {Obj(1), Num(0), Num(1), Bool(FALSE), Bool(TRUE), Null, Str(0), Str(1)}
Texts == {RawText(1), JsonText(1)}
NextJSON ==
  \/ \E v \in JsonValues, t \in 0..MaxWindow : WriteThenRead(1, "setJSON/getJSON", SearchKey, v, t)
  \/ \E v \in Texts, t \in 0..MaxWindow : WriteThenRead(1, "set/get", SearchKey, v, t)
  \/ Put(1)
  \/ PutEnded(1)
  \/ Fetch(1)
  \/ FetchEnded(1)
  \/ HandlerReturn(1)
  \/ commandReply(1, "ok")
  \/ getReply(1, "ok")
  \/ Tick

SpecJSON == InitSeq /\ [][NextJSON]_vars

\* The service from its constructor on, REDIS_ENABLED or not: the module
\* lifecycle, the client's connection events and retry policy, and operations
\* whose commands may fail.
InitConstructed ==
  /\ client \in BOOLEAN
  /\ isConnected = FALSE
  /\ errorLogged = FALSE
  /\ warnings = 0
  /\ times = 0
  /\ delay = NoDelay
  /\ retries = 0
  /\ last = "none"
  /\ gaveUp = FALSE
  /\ status = "wait"
  /\ quota = [limit |-> MaxLimit, windowSeconds |-> MaxWindow]
  /\ guard = "declared"
  /\ InitStore
  /\ InitProcs
  /\ InitApp

NextConn ==
  \/ onModuleInit(1)
  \/ \E ok \in BOOLEAN : connectEnded(1, ok)
  \/ onModuleDestroy(1)
  \/ \E o \in Outcomes : quitEnded(1, o)
  \/ get(2, TagsAll)
  \/ set(2, TagsAll, RawText(1), 0)
  \/ \E o \in Outcomes : getReply(2, o)
  \/ \E o \in Outcomes : commandReply(2, o)
  \/ \E p \in Procs : Return(p)
  \/ Connected
  \/ errorEvent
  \/ closeEvent

SpecConn == InitConstructed /\ [][NextConn]_vars

\* The Request Gate in front of one route, with or without a declared quota,
\* under either guard, with failing commands and a dropping connection.
InitGate ==
  /\ client \in BOOLEAN
  /\ isConnected \in {client, FALSE}
  /\ quota \in {[limit |-> 2, windowSeconds |-> MaxWindow], NoMeta}
  /\ guard \in Guards
  /\ InitStore
  /\ InitProcs
  /\ InitLog
  /\ InitApp

NextGate ==
  \/ canActivate(Caller, RequestedRoute, PlainRequest)
  \/ GateCheck(Caller)
  \/ GateCheckEnded(Caller)
  \/ RetryLater(Caller)
  \/ HandlerReturn(Caller)
  \/ \E p \in Procs, o \in Outcomes : getReply(p, o)
  \/ \E p \in Procs, o \in Outcomes : incrReply(p, o)
  \/ \E p \in Procs, o \in Outcomes : expireReply(p, o)
  \/ Tick
  \/ ConnectionLost
  \/ Connected

SpecGate == InitGate /\ [][NextGate]_vars

\* The Request Gate with one request of any kind per process to the three
\* routes, on an available cache.
InitKey ==
  /\ client = TRUE
  /\ isConnected = TRUE
  /\ quota = [limit |-> MaxLimit, windowSeconds |-> MaxWindow]
  /\ guard \in Guards
  /\ InitStore
  /\ InitProcs
  /\ InitLog
  /\ InitApp

NextKey ==
  \/ \E p \in Procs, route \in Routes, request \in Requests : canActivate(p, route, request)
  \/ \E p \in Procs : GateCheck(p)
  \/ \E p \in Procs : GateCheckEnded(p)
  \/ \E p \in Procs : getReply(p, "ok")
  \/ \E p \in Procs : incrReply(p, "ok")
  \/ \E p \in Procs : expireReply(p, "ok")

SpecKey == InitKey /\ [][NextKey]_vars

\* ================================================================== claims
Counter == IF kv[RLKey].kind = "int" THEN kv[RLKey].n ELSE 0
Checked(p) == pc[p] = "done" /\ op[p] = "checkRateLimit"

\* C1: on an available cache, the k-th sequential checkRateLimit call of a
\* window is allowed exactly when k <= limit, and a call past the limit (the
\* (limit+1)th) returns allowed = false with remaining = 0.
C1_SequentialQuota ==
  \A p \in Procs :
    Checked(p) =>
      /\ ret[p].allowed <=> loc[p].seq <= quota.limit
      /\ loc[p].seq > quota.limit => ~ret[p].allowed /\ ret[p].remaining = 0

C1_Witness ==
  /\ Checked(1) /\ quota.limit = MaxLimit /\ loc[1].seq = quota.limit + 1
  /\ ~ret[1].allowed /\ ret[1].remaining = 0 /\ win.allowed = quota.limit

\* C2: under every interleaving of checkRateLimit calls on one key within one
\* window, at most `limit` calls return allowed = true and the stored counter
\* never exceeds `limit`.
C2_AtMostLimitAllowed ==
  /\ win.allowed + Cardinality({p \in Procs : Checked(p) /\ ret[p].allowed}) <= quota.limit
  /\ Counter <= quota.limit

\* C3: two concurrent increment calls on a key that does not exist never both
\* get 1, and once both have completed the counter is exactly 2.
Incremented(p) == pc[p] = "done" /\ op[p] = "increment"
C3_ConcurrentIncrements ==
  \A p, q \in Procs :
    (/\ p # q /\ win.calls = 0 /\ Incremented(p) /\ Incremented(q)
     /\ \A r \in Procs \ {p, q} : pc[r] = "idle") =>
      /\ ~(ret[p].val = Num(1) /\ ret[q].val = Num(1))
      /\ {ret[p].val, ret[q].val} = {Num(1), Num(2)}
      /\ kv[RLKey] = IntVal(2)

C3_Witness ==
  /\ win.calls = 0 /\ Incremented(1) /\ Incremented(2)
  /\ ret[1].val = Num(2) /\ ret[2].val = Num(1) /\ kv[RLKey] = IntVal(2)

\* C4: the TTL of a counter is assigned only by the increment whose result is
\* 1, and once assigned it is not changed or extended by any later increment
\* for as long as the counter lives.
C4_TTLAssignedOnce ==
  [][ /\ (expiry[RLKey] # NoTTL /\ kv'[RLKey] # Null) => expiry'[RLKey] = expiry[RLKey]
      /\ (expiry'[RLKey] # expiry[RLKey] /\ expiry'[RLKey] # NoTTL) =>
           \E p \in Procs : /\ pc[p] = "incr_expire" /\ pc'[p] = "done"
                            /\ loc[p].result = 1
                            /\ expiry[RLKey] = NoTTL
                            /\ expiry'[RLKey] = now + loc[p].ttl ]_vars

C4_Witness ==
  /\ now > 0 /\ expiry[RLKey] > now
  /\ \E p \in Procs : Incremented(p) /\ ret[p].val = Num(2)

\* C5: every counter the Rate Limiter has created is destroyed by TTL expiry:
\* whenever no quota check is between its INCR and its EXPIRE, an existing
\* counter has a TTL, so a caller is never rejected by a counter that will
\* not expire.
C5_CounterExpires ==
  /\ (\A p \in Procs : pc[p] # "incr_expire") => (kv[RLKey] # Null => expiry[RLKey] # NoTTL)
  /\ \A p \in Procs : (Checked(p) /\ ~ret[p].allowed) => expiry[RLKey] # NoTTL

\* C6: an operation called while the cache is disabled or disconnected issues
\* no store command and leaves the store unchanged; get returns null, set and
\* del return nothing, and checkRateLimit returns allowed = true with
\* remaining = limit whatever the counter holds.
C6_UnavailableFallback ==
  /\ [](\A p \in Procs :
          (pc[p] = "done" /\ downAtEntry[p] /\ op[p] # "onModuleInit") =>
            /\ issued[p] = 0
            /\ op[p] = "get" => ret[p] = Returned(Null)
            /\ op[p] \in {"set", "del"} => ret[p] = Returned(Void)
            /\ op[p] = "checkRateLimit" =>
                 ret[p].st = "ok" /\ ret[p].allowed /\ ret[p].remaining = quota.limit)
  /\ [][\A p \in Procs :
          (pc[p] = "idle" /\ pc'[p] # "idle" /\ ~(client /\ isConnected)
             /\ op'[p] # "onModuleInit") =>
            (pc'[p] = "done" /\ kv' = kv /\ expiry' = expiry)]_vars

C6_Witness ==
  /\ Checked(1) /\ downAtEntry[1] /\ Counter >= quota.limit
  /\ ret[1].allowed /\ ret[1].remaining = quota.limit
  /\ kv[ListKey] # Null

\* What each public operation is documented to return when the store fails it.
DocumentedFallback(name, r) ==
  CASE name \in {"get", "hget", "getJSON"} -> r = Returned(Null)
    [] name \in {"exists"} -> r = Returned(Bool(FALSE))
    [] name \in {"increment", "decrement", "getNumber", "deletePattern"} -> r = Returned(Num(0))
    [] name = "hgetall" -> r = Returned([kind |-> "obj", n |-> 0])
    [] name = "ttl" -> r = Returned(Num(-1))
    [] name = "checkRateLimit" -> r.st = "ok" /\ r.allowed
    [] OTHER -> r = Returned(Void)

\* C7: no public operation of RedisService throws or rejects to its caller,
\* whatever command fails and whenever the connection drops; an operation
\* that returns after a failed command returns its documented fallback.
C7_NeverThrows ==
  \A p \in Procs :
    /\ ret[p].st # "threw"
    /\ (pc[p] = "done" /\ loc[p].rejected) =>
         ret[p].st = "ok" /\ DocumentedFallback(op[p], ret[p])

C7_Witness ==
  /\ pc[1] = "done" /\ op[1] = "increment" /\ loc[1].rejected
  /\ kv[RLKey] = IntVal(1) /\ expiry[RLKey] = NoTTL
  /\ ret[1] = Returned(Num(0))

\* The awaited Promise.all of p holds a promise that can no longer settle.
Hung(p) == pc[p] = "all" /\ \E s \in loc[p].pend : s.cmd = "hung"

\* C8: no cache fault turns a handler call that succeeds with caching
\* disabled into one that fails: such a call returns, and returns a success,
\* whatever the connection, the store commands, the cached payloads and the
\* invalidation's scans and deletes do.
C8_FaultTransparent ==
  \A p \in Procs :
    handler[p].expect = "ok" =>
      /\ handler[p].stage = "returned" => out[p].st = "ok"
      /\ ~Hung(p)

\* The keys the claim says invalidatePostCache(slug) removes.
InvalidationTargets(slug) ==
  {k \in Keys : \/ slug # NoSlug /\ k = <<"post", slug>>
                \/ k[1] = "posts" /\ k[2] \in {"list", "page"}
                \/ k \in {<<"categories", "all">>, <<"tags", "all">>}}

\* C9: invalidatePostCache(slug) on an available cache removes post:<slug>,
\* every posts:list:* and posts:page:* key, categories:all and tags:all, and
\* no step of it changes any other key (tag:id:<n>, category:id:<n>,
\* post:<other-slug> among them).
C9_InvalidationFrame ==
  /\ [](\A p \in Procs :
          (pc[p] = "done" /\ op[p] = "invalidatePostCache" /\ ~downAtEntry[p]) =>
            \A k \in InvalidationTargets(loc[p].key[1]) : kv[k] = Null)
  /\ [][\A p \in Procs :
          (pc[p] = "all" /\ op[p] = "invalidatePostCache") =>
            \A k \in Keys \ InvalidationTargets(loc[p].key[1]) :
              kv'[k] = kv[k] /\ expiry'[k] = expiry[k]]_vars

C9_Witness ==
  /\ pc[1] = "done" /\ op[1] = "invalidatePostCache" /\ loc[1].key = <<"a">>
  /\ issued[1] = 7
  /\ \A k \in InvalidationTargets("a") : kv[k] = Null
  /\ \A k \in {PostKey("b"), CategoryIdKey, TagIdKey} : kv[k] = JsonText(1)

\* The entries the claim names for the post a write handler h has written.
PostEntries(h) ==
  {PostKey(x) : x \in {h.old, h.slug} \ {NoSlug}} \cup
  {PostIdKey("1"), ListKey, ListKey2, RelatedKey, SearchKey, CategoriesAll, TagsAll}

\* C10: when a post write handler (create, update, remove) has returned, with
\* no concurrent reader, none of post:<slug>, post:id:<id>, posts:list:*,
\* posts:related:*, search:*, categories:all, tags:all holds a value read
\* from the database before the write.
C10_NoStaleEntry ==
  \A p \in Procs :
    (/\ handler[p].stage = "returned"
     /\ handler[p].name \in {"BlogService.create", "BlogService.update", "BlogService.remove"}
     /\ out[p].st = "ok") =>
      \A k \in PostEntries(handler[p]) : kv[k] = Null \/ kv[k] = JsonText(db.gen)

\* The keys a step removes from the store.
Removed == {k \in Keys : kv[k] # Null /\ kv'[k] = Null}

\* C11: deletePattern(pattern) on an available cache collects exactly the
\* keys that match the pattern when the scan runs, deletes all of them and
\* changes no other key, and returns the number of keys it removed; when the
\* scan stream reports an error it removes nothing and returns 0.
C11_DeletePattern ==
  /\ [][\A p \in Procs :
          (op[p] = "deletePattern" /\ pc[p] = "all" /\ loc'[p] # loc[p]) =>
            \A s \in loc[p].pend :
              /\ s.cmd = "scan" =>
                   /\ kv' = kv
                   /\ \A n \in loc'[p].pend :
                        n.keys = {k \in Keys : kv[k] # Null /\ GlobMatch(loc[p].key, k)}
                   /\ pc'[p] = "done" => ret'[p] = Returned(Num(0))
              /\ s.cmd = "bulkdel" =>
                   /\ \A k \in s.keys : kv'[k] = Null
                   /\ \A k \in Keys \ s.keys : kv'[k] = kv[k]
                   /\ pc'[p] = "done" /\ ret'[p] = Returned(Num(Cardinality(Removed)))]_vars
  /\ [](\A p \in Procs :
          (op[p] = "deletePattern" /\ pc[p] = "done" /\ loc[p].rejected) =>
            ret[p] = Returned(Num(0)))

C11_Witness ==
  /\ op[1] = "deletePattern" /\ pc[1] = "done" /\ loc[1].key = PostsListPattern
  /\ ret[1] = Returned(Num(2))
  /\ kv[ListKey] = Null /\ kv[ListKey2] = Null
  /\ kv[PostKey("a")] # Null /\ kv[PageKey] # Null

WriteHandlers ==
  {"BlogService.create", "BlogService.update", "BlogService.remove",
   "CategoriesService.create", "CategoriesService.update", "CategoriesService.remove",
   "TagsService.create", "TagsService.update", "TagsService.remove"}

\* C12: in every write handler a cache operation starts only after the
\* database write has succeeded (so a failed write starts none), the handler
\* returns only when the invalidations it awaits have ended, and no step after
\* the write changes the database again or turns the handler's success into a
\* failure.
C12_WriteThenInvalidate ==
  /\ [][\A p \in Procs :
          handler[p].name \in WriteHandlers =>
            /\ (pc[p] = "idle" /\ op'[p] # "none") => handler[p].written
            /\ handler[p].written => db' = db]_vars
  /\ [](\A p \in Procs :
          (handler[p].name \in WriteHandlers /\ handler[p].stage = "returned") =>
            /\ pc[p] = "idle" /\ loc[p].pend = {}
            /\ IF handler[p].written
                 THEN out[p].st = "ok" /\ handler[p].awaited >= 1
                 ELSE out[p].st = "failed" /\ handler[p].awaited = 0)

C12_Witness ==
  /\ handler[1].name = "TagsService.remove" /\ handler[1].stage = "returned"
  /\ handler[1].written /\ handler[1].awaited = 2 /\ out[1].st = "ok"
  /\ ~db.tag /\ ~isConnected

\* The read of a write-then-read by p has returned.
Fetched(p) == handler[p].stage = "fetch" /\ pc[p] = "done"
\* The TTL of the entry p wrote has elapsed.
Elapsed(p) == handler[p].ttl # 0 /\ now >= handler[p].at + handler[p].ttl

\* C13: setJSON(k, v, ttl) followed by getJSON(k), the cache available
\* throughout and k neither rewritten, deleted nor expired in between, returns
\* a value equal to v.
C13_JsonRoundTrip ==
  \A p \in Procs :
    (Fetched(p) /\ handler[p].name = "setJSON/getJSON" /\ ~Elapsed(p)) =>
      ret[p] = Returned(handler[p].value)

C13_Witness ==
  /\ Fetched(1) /\ handler[1].name = "setJSON/getJSON" /\ ~Elapsed(1)
  /\ handler[1].value = Bool(FALSE) /\ handler[1].ttl = MaxWindow /\ now > handler[1].at
  /\ ret[1] = Returned(Bool(FALSE))

\* C14: once ttl seconds have elapsed since set / setJSON wrote k with that
\* ttl (and k was not rewritten), get(k) and getJSON(k) return null.
C14_ExpiresAfterTTL ==
  \A p \in Procs : (Fetched(p) /\ Elapsed(p)) => ret[p] = Returned(Null)

C14_Witness ==
  /\ Fetched(1) /\ handler[1].name = "set/get" /\ handler[1].ttl = 1
  /\ now = handler[1].at + 1 /\ handler[1].value = RawText(1)
  /\ ret[1] = Returned(Null)

\* C15: with caching configured off (no client), in every reachable state
\* isAvailable() is false, no client is created, no connection attempt or store
\* command is ever issued (by onModuleInit, by an operation, by shutdown), no
\* connection event occurs and no warning is logged.
C15_DisabledIsInert ==
  /\ [](~client =>
          /\ ~isAvailable
          /\ status = "wait" /\ last = "none"
          /\ warnings = 0
          /\ \A p \in Procs : issued[p] = 0 /\ pc[p] \in {"idle", "done"})
  /\ [][~client => ~client']_vars

C15_Witness ==
  /\ ~client
  /\ pc[1] = "done" /\ op[1] = "onModuleInit"
  /\ pc[2] = "done" /\ op[2] = "get" /\ ret[2] = Returned(Null)

\* C16: the retry delay for failed attempt n is min(50 * n, 2000) ms, never
\* above 2000 and never decreasing within an episode; once n exceeds 3 the
\* policy stops retrying and marks the service unavailable, so at most 3
\* reconnects are scheduled per failure episode.
C16_RetryPolicy ==
  /\ [](delay # NoDelay => delay = Min(50 * times, 2000) /\ delay <= 2000)
  /\ [](retries <= 3)
  /\ [][(delay # NoDelay /\ delay' # NoDelay) => delay' >= delay]_vars
  /\ [][(times' # times /\ times' > 3) =>
          delay' = NoDelay /\ status' = "end" /\ ~isAvailable']_vars

C16_Witness == retries = 3 /\ last = "exhausted" /\ times = 4 /\ status = "end"

\* C17: within one failure episode (between two 'connect' events, or from
\* startup to the first) at most one warning is logged, failing operations
\* included.
C17_OneWarningPerEpisode == warnings <= 1

\* C18: isAvailable() is true exactly when caching is enabled and the most
\* recent connection event (connect, error, close, retries exhausted, initial
\* connect failure) was 'connect'; after the retries are exhausted it stays
\* false until a later 'connect', which makes it true again.
C18_TracksConnection ==
  /\ [](isAvailable <=> (client /\ last = "connect"))
  /\ [][(last = "exhausted" /\ ~isAvailable') => last' # "connect"]_vars
  /\ [][(last = "exhausted" /\ last' = "connect") => isAvailable']_vars

C18_Witness == gaveUp /\ last = "connect" /\ isAvailable /\ pc[2] = "get"

GateDone(p) == handler[p].name = "canActivate" /\ handler[p].stage = "returned"

\* C19: the gate checks a request against the handler's declared quota when
\* there is one (never against the fallback), and otherwise against the global
\* fallback of 100 requests per 60 s keyed by method, path and identity; no
\* request passes the gate without a quota check.
C19_QuotaChosen ==
  \A p \in Procs :
    GateDone(p) =>
      /\ handler[p].awaited >= 1
      /\ IF ~handler[p].route.declared
           THEN /\ handler[p].key = GlobalRLKey
                /\ handler[p].data = 100 /\ handler[p].ttl = 60
           ELSE /\ handler[p].key = RLKey
                /\ handler[p].data = quota.limit /\ handler[p].ttl = quota.windowSeconds

\* C20: every response to a request the gate has handled carries the three
\* quota headers, and X-RateLimit-Limit is the limit that was enforced.
C20_HeadersOnEveryResponse ==
  \A p \in Procs :
    GateDone(p) =>
      /\ out[p].data.set
      /\ out[p].data.limit = handler[p].data

\* C21: a request that is not allowed is rejected with a retryAfter that is
\* ceil((resetAt - now) / 1000), lies in 1..windowSeconds, and is sufficient:
\* the same request sent again retryAfter seconds after the rejection passes.
C21_RetryAfterSuffices ==
  \A p \in Procs :
    GateDone(p) =>
      /\ out[p].st = "rejected" => out[p].data.retryAfter \in 1..handler[p].ttl
      /\ handler[p].retried => out[p].st = "passed"

Gated(p) == handler[p].name = "canActivate" /\ handler[p].key # <<>>

\* C22: the caller identity in the QuotaKey is the authenticated user id when
\* request.user.id is present, otherwise the first hop of the X-Forwarded-For
\* chain, otherwise (no origin can be resolved) 'unknown'.
C22_IdentityOrder ==
  \A p \in Procs :
    Gated(p) =>
      LET r == handler[p].request
          identity == handler[p].key[Len(handler[p].key)] IN
      /\ r.user # 0 => identity = UserIdentity(r.user)
      /\ r.user = 0 /\ r.forwardedFor # <<>> => identity = r.forwardedFor[1]
      /\ r.user = 0 /\ r.forwardedFor = <<>> /\ r.ip = "" /\ r.remote = ""
           => identity = "unknown"

\* C23: two requests consume the same counter only if they target the same
\* route: requests to two different routes never share a counter.
C23_CounterPerRoute ==
  \A p, q \in Procs :
    Gated(p) /\ Gated(q) /\ handler[p].key = handler[q].key
      => handler[p].route = handler[q].route

\* C30: two unauthenticated requests from one client address to one route that
\* differ only in the X-Forwarded-For header map to the same counter.
C30_KeyIgnoresHeaders ==
  \A p, q \in Procs :
    /\ Gated(p) /\ Gated(q)
    /\ handler[p].route = handler[q].route
    /\ handler[p].request.user = 0 /\ handler[q].request.user = 0
    /\ handler[p].request.ip = handler[q].request.ip
    /\ handler[p].request.remote = handler[q].request.remote
    => handler[p].key = handler[q].key

\* C24: each request is counted against its QuotaKey exactly once, also on
\* routes where RateLimitGuard is registered both globally and via @UseGuards:
\* a request that has passed has incremented its counter at most once.
C24_CountedOnce ==
  \A p \in Procs :
    GateDone(p) /\ out[p].st = "passed" => out[p].data.counted <= 1

\* C25: in a sequence of checkRateLimit calls on an available cache the k-th
\* allowed call of a window reports remaining = limit - k; every result has
\* 0 <= remaining <= limit; and resetAt is the clock of the call, read once
\* the counter has been read, plus windowSeconds.
C25_RemainingAndReset ==
  /\ [](\A p \in Procs :
          Checked(p) =>
            /\ ret[p].remaining \in 0..quota.limit
            /\ ret[p].allowed => ret[p].remaining = quota.limit - loc[p].seq
            /\ ret[p].resetAt = loc[p].resetAt)
  /\ [][\A p \in Procs :
          (op[p] = "checkRateLimit" /\ pc[p] = "get" /\ pc'[p] # "get")
            => loc'[p].resetAt = now + quota.windowSeconds]_vars

C25_Witness ==
  /\ Checked(1) /\ quota.limit = MaxLimit /\ loc[1].seq = MaxLimit
  /\ ret[1].allowed /\ ret[1].remaining = 0
  /\ now > 0 /\ ret[1].resetAt = now + quota.windowSeconds

\* C26: every deletePattern call eventually resolves, whatever the scan stream
\* and the bulk delete do.
C26_DeletePatternResolves ==
  \A p \in Procs : (pc[p] = "all" /\ op[p] = "deletePattern") ~> (pc[p] = "done")

\* C27: whenever every handler has finished, however a post write handler and
\* the concurrent readers were interleaved, no entry under post:<slug> or
\* posts:list:* holds data read from the database before the write.
C27_NoStaleEntryAfterRace ==
  (\A p \in Procs : handler[p].stage \in {"idle", "returned"}) =>
    \A k \in {PostKey(slug) : slug \in Slugs} \cup {ListKey, ListKey2} :
      kv[k] = Null \/ kv[k] = JsonText(db.gen)

\* C28: a checkRateLimit call that returns allowed = false has sent the store
\* nothing but the read of the counter, and the step it returns with leaves
\* every key's value and TTL as they were: a rejected call neither increments
\* the counter nor extends its window.
C28_RejectionChangesNothing ==
  /\ [](\A p \in Procs : (Checked(p) /\ ~ret[p].allowed) => issued[p] = 1)
  /\ [][\A p \in Procs :
          (op[p] = "checkRateLimit" /\ pc[p] # "done" /\ pc'[p] = "done" /\ ~ret'[p].allowed)
            => /\ pc[p] = "get"
               /\ kv' = kv /\ expiry' = expiry]_vars

C28_Witness ==
  /\ Checked(1) /\ ~ret[1].allowed /\ issued[1] = 1
  /\ Counter = quota.limit /\ expiry[RLKey] > now /\ now > 0

\* C29: a refresh token handed out by login is accepted by refreshToken until
\* logout (its 7-day expiry is beyond the modelled time), also when the cache
\* was unavailable while it was issued; after a logout that found the cache
\* available, refreshToken rejects it.
C29_RefreshTokenLifetime ==
  \A p \in Procs :
    (handler[p].name = "AuthService.refreshToken" /\ handler[p].stage = "returned") =>
      /\ db.session = "issued" => out[p].st = "ok"
      /\ db.session = "revoked" /\ db.revokedUp => out[p].st = "failed"

====
